---- MODULE Spec2Model ----
(***************************************************************************)
(* A model of the releaser step runner (releaser/make_release.py):         *)
(* run_steps resolving a step selector against a registry of               *)
(* (function, description) pairs and running the selected steps against    *)
(* the shared configuration, and the default release pipeline steps_funcs. *)
(* Further entry points, each with a specification of its own over the     *)
(* same variables: insert_step_func (SpecInsert), yes() and no() of        *)
(* releaser/utils.py (SpecPrompt), main.py (SpecMain) and                  *)
(* long_release_name of releaser/utils.py (SpecPure), strip_pretags and    *)
(* isprerelease (SpecStrip), replace_lines (SpecReplace), add_release of   *)
(* releaser/next_release.py (SpecNext) and update_feedstock of             *)
(* releaser/update_feedstock.py (SpecFeedstock); SpecAll joins run_steps,  *)
(* make_release and insert_step_func.                                      *)
(*                                                                         *)
(* Strings the code takes apart are sequences: a step selector is a        *)
(* sequence of tokens, each a step name or the separator ":"; two or more  *)
(* adjacent name tokens are their concatenation, which is no step's name.  *)
(* A release name is a sequence of characters.                             *)
(***************************************************************************)
EXTENDS Integers, Sequences, FiniteSets, TLC

VARIABLES
    registry,       \* run_steps' steps_funcs: sequence of [name, desc]
    steps_filter,   \* run_steps' steps_filter (token sequence)
    config,         \* the configuration dict (function from its keys)
    pc,             \* "make_release", "resolve", "loop", "done", "exited", "raised"
    start,          \* run_steps' local start (0-based), None before resolution
    stop,           \* run_steps' local stop (exclusive), None before resolution
    selected,       \* the slice steps_funcs[start:stop] the loop iterates
    i,              \* 1-based position in selected of the next step to run
    calls,          \* history: one record per step_func(**config) call
    trace,          \* history: notifications printed and invocations, in order
    error,          \* exception type that ended the run, "" if none
    exit_status,    \* process exit status, None while running
    args,           \* the arguments of the entry point called
    fs,             \* which of tmp_dir and build_dir exist on disk
    effects,        \* history: what the steps did outside the process, in order
    prompts,        \* history: the questions asked and whether declined
    insert_call,    \* the last insert_step_func call: arguments, list before, outcome
    console,        \* a yes()/no() question being asked: lines read, hints, result
    argv,           \* main.py's sys.argv
    entry,          \* what main.py did with argv
    fn              \* a pure function applied to an argument

run == <<registry, steps_filter, config, pc, start, stop, selected, i,
         calls, trace, error, exit_status>>
world == <<fs, effects, prompts>>
rest == <<insert_call, console, argv, entry, fn>>
vars == <<run, args, world, rest>>

None == "None"
Sep == ":"

\* run_steps not started
RunIdle ==
    /\ steps_filter = <<>>
    /\ config = <<>>
    /\ start = None
    /\ stop = None
    /\ selected = <<>>
    /\ i = 1
    /\ calls = <<>>
    /\ trace = <<>>
    /\ error = ""
    /\ exit_status = None

\* nothing on disk, nothing done outside the process
WorldIdle ==
    /\ fs = [tmp |-> FALSE, build |-> FALSE]
    /\ effects = <<>>
    /\ prompts = <<>>

\* no insert_step_func call made
NoInsert == [n |-> 0]

\* the entry points other than run_steps and make_release are not running
RestIdle ==
    /\ insert_call = NoInsert
    /\ console = None
    /\ argv = <<>>
    /\ entry = None
    /\ fn = None

\* ------------------------------------------------------------------ bounds
MaxSteps == 3
MaxSelLen == 3

\* ------------------------------------------------------------ python helpers

SeqsUpTo(S, n) == UNION {[1..k -> S] : k \in 0..n}

\* x in list
Contains(s, x) == \E k \in 1..Len(s) : s[k] = x

\* list.index(x) when x is in the list (0-based, first occurrence)
FirstPos(s, x) == CHOOSE k \in 1..Len(s) : s[k] = x /\ \A j \in 1..(k-1) : s[j] # x

\* seq[a:b] with 0 <= a, 0 <= b
Slice(s, a, b) == SubSeq(s, a + 1, IF b > Len(s) THEN Len(s) ELSE b)

\* str.split(':') on a token sequence
RECURSIVE Split(_)
Split(s) ==
    IF ~Contains(s, Sep) THEN <<s>>
    ELSE LET p == FirstPos(s, Sep)
         IN <<SubSeq(s, 1, p - 1)>> \o Split(SubSeq(s, p + 1, Len(s)))

\* dict.update(other): other's keys overwrite, new keys are added
\* variant: existing keys keep their value
DictUpdate_keepold(d, other) == d @@ other
DictUpdate(d, other) == other @@ d

\* ------------------------------------------------------------- run_steps

\* func_names = [f.__name__ for f, desc in steps_funcs]
FuncNames(steps) == [k \in 1..Len(steps) |-> steps[k].name]

\* func_names.index(part): [found, pos], pos 0-based, first occurrence;
\* found = FALSE is the ValueError list.index raises. A part (a token
\* sequence) denotes a step name only when it is a single token.
NotFound == [found |-> FALSE, pos |-> None]
\* variant: an unknown name is taken for the first step instead of raising
Index_default(names, part) ==
    IF Len(part) = 1 /\ Contains(names, part[1])
    THEN [found |-> TRUE, pos |-> FirstPos(names, part[1]) - 1]
    ELSE [found |-> TRUE, pos |-> 0]
Index(names, part) ==
    IF Len(part) = 1 /\ Contains(names, part[1])
    THEN [found |-> TRUE, pos |-> FirstPos(names, part[1]) - 1]
    ELSE NotFound

\* start = func_names.index(start) if start else 0
StartIndex(names, part) == IF part # <<>> THEN Index(names, part).pos ELSE 0

\* stop = func_names.index(stop) + 1 if stop else len(func_names)
\* variants: stop bound not made inclusive; empty stop one short of the end
StopIndex_exclusive(names, part) == IF part # <<>> THEN Index(names, part).pos ELSE Len(names)
StopIndex_shortend(names, part) == IF part # <<>> THEN Index(names, part).pos + 1 ELSE Len(names) - 1
StopIndex(names, part) == IF part # <<>> THEN Index(names, part).pos + 1 ELSE Len(names)

\* stop = start + 1 (single step)
\* variant: a single name runs to the end of the list
SingleStop_toend(names, a) == Len(names)
SingleStop(names, a) == a + 1

Unresolved == [ok |-> FALSE, start |-> None, stop |-> None]

\* lines 366-375: [ok, start, stop]; not ok when a lookup or the unpacking of
\* split's result raises ValueError
ResolveSelector(names, sel) ==
    IF Contains(sel, Sep) THEN
        LET parts == Split(sel) IN
        IF Len(parts) # 2 THEN Unresolved
        ELSE IF parts[1] # <<>> /\ ~Index(names, parts[1]).found THEN Unresolved
        ELSE IF parts[2] # <<>> /\ ~Index(names, parts[2]).found THEN Unresolved
        ELSE [ok |-> TRUE, start |-> StartIndex(names, parts[1]),
              stop |-> StopIndex(names, parts[2])]
    ELSE
        IF ~Index(names, sel).found THEN Unresolved
        ELSE LET a == Index(names, sel).pos
             IN [ok |-> TRUE, start |-> a, stop |-> SingleStop(names, a)]

\* print(step_desc + '...') if step_desc
StartNote(desc) == IF desc # "" THEN <<<<"start", desc>>>> ELSE <<>>

\* print("done.") if step_desc
\* variant: done printed whatever the description
DoneNote_always(desc) == <<<<"done", desc>>>>
DoneNote(desc) == IF desc # "" THEN <<<<"done", desc>>>> ELSE <<>>

\* What a step_func(**config) call can do, as run_steps sees it:
\*   kind "return": value is the returned object, tagged with its type
\*   kind "exit":   the step called exit(1) (SystemExit)
\*   kind "raise":  the step raised the exception named by value.type
ReturnNone == [kind |-> "return", value |-> [type |-> "NoneType"]]
ReturnDict(d) == [kind |-> "return", value |-> [type |-> "dict", val |-> d]]
ReturnOther == [kind |-> "return", value |-> [type |-> "str"]]
Exit1 == [kind |-> "exit", value |-> [type |-> "SystemExit"]]
Raise(exc) == [kind |-> "raise", value |-> [type |-> exc]]

\* how the loop body ends for a step result: "next" (go on with the loop),
\* or the exception that propagates out of run_steps
\* variants: a failing step does not end the loop; a returned object that is
\* not a dict is ignored like None
BodyEnd_swallow(r) == "next"
BodyEnd_untyped(r) ==
    IF r.kind = "exit" THEN "SystemExit"
    ELSE IF r.kind = "raise" THEN r.value.type
    ELSE "next"
BodyEnd(r) ==
    IF r.kind = "exit" THEN "SystemExit"
    ELSE IF r.kind = "raise" THEN r.value.type
    ELSE IF r.value.type = "NoneType" THEN "next"
    ELSE IF r.value.type # "dict" THEN "AssertionError"
    ELSE "next"

\* the configuration after the loop body (lines 382-384)
ConfigAfter(cfg, r) ==
    IF BodyEnd(r) = "next" /\ r.value.type = "dict"
    THEN DictUpdate(cfg, r.value.val) ELSE cfg

\* run_steps up to the loop (lines 366-377)
RunStepsResolve ==
    /\ pc = "resolve"
    /\ LET r == ResolveSelector(FuncNames(registry), steps_filter) IN
       IF r.ok
       THEN /\ start' = r.start
            /\ stop' = r.stop
            /\ selected' = Slice(registry, r.start, r.stop)
            /\ i' = 1
            /\ pc' = "loop"
            /\ UNCHANGED <<error, exit_status>>
       ELSE /\ pc' = "raised"
            /\ error' = "ValueError"
            /\ exit_status' = 1
            /\ UNCHANGED <<start, stop, selected, i>>
    /\ UNCHANGED <<registry, steps_filter, config, calls, trace, args, world, rest>>

\* one iteration of the loop (lines 377-387) for the step selected[i] whose
\* call ends as r
LoopBody(r) ==
    LET step == selected[i]
        end == BodyEnd(r)
    IN /\ calls' = Append(calls, [name |-> step.name, cfg |-> config, result |-> r])
       /\ config' = ConfigAfter(config, r)
       /\ trace' = trace \o StartNote(step.desc) \o <<<<"invoke", step.name>>>>
                         \o (IF end = "next" THEN DoneNote(step.desc) ELSE <<>>)
       /\ IF end = "next"
          THEN /\ i' = i + 1
               /\ UNCHANGED <<pc, error, exit_status>>
          ELSE /\ pc' = IF end = "SystemExit" THEN "exited" ELSE "raised"
               /\ error' = end
               /\ exit_status' = 1
               /\ UNCHANGED i
       /\ UNCHANGED <<registry, steps_filter, start, stop, selected>>

\* the loop is exhausted: run_steps returns
RunStepsReturn ==
    /\ pc = "loop"
    /\ i > Len(selected)
    /\ pc' = "done"
    /\ exit_status' = 0
    /\ UNCHANGED <<registry, steps_filter, config, start, stop, selected, i,
                   calls, trace, error, args, world, rest>>

\* ------------------------------------------- a registry of arbitrary steps

\* the steps a registry is made of: (function name, description)
StepPool == { [name |-> "A", desc |-> "msg"],
              [name |-> "B", desc |-> ""],
              [name |-> "C", desc |-> "msg2"] }
PoolNames == {s.name : s \in StepPool}
Registries == SeqsUpTo(StepPool, MaxSteps)
Selectors == SeqsUpTo(PoolNames \cup {Sep}, MaxSelLen)

InitConfig == ("k1" :> 0)

\* the partial update an arbitrary step may return on its n-th call
SomeUpdate(name, n) == ("k1" :> n) @@ (name :> n)

\* what an arbitrary step function can do when called
StepResults(name, n) ==
    { ReturnNone, ReturnDict(SomeUpdate(name, n)), ReturnOther,
      Exit1, Raise("CalledProcessError") }

\* the loop body for an arbitrary step function
RunStep ==
    /\ pc = "loop"
    /\ i <= Len(selected)
    /\ selected[i].name \in PoolNames
    /\ \E r \in StepResults(selected[i].name, Len(calls) + 1) : LoopBody(r)
    /\ UNCHANGED <<args, world, rest>>

Init ==
    /\ registry \in Registries
    /\ steps_filter \in Selectors
    /\ config = InitConfig
    /\ pc = "resolve"
    /\ start = None
    /\ stop = None
    /\ selected = <<>>
    /\ i = 1
    /\ calls = <<>>
    /\ trace = <<>>
    /\ error = ""
    /\ exit_status = None
    /\ args = None
    /\ fs = [tmp |-> FALSE, build |-> FALSE]
    /\ effects = <<>>
    /\ prompts = <<>>
    /\ RestIdle

Next == RunStepsResolve \/ RunStep \/ RunStepsReturn

Spec == Init /\ [][Next]_vars


\* =================================================== the release pipeline

\* ------------------------------------------------------------- utils.py

\* sub in s, on character sequences
IsSubstr(sub, s) ==
    \E k \in 0..(Len(s) - Len(sub)) : SubSeq(s, k + 1, k + Len(sub)) = sub

\* s.endswith(suffix)
EndsWith(s, suffix) ==
    Len(s) >= Len(suffix) /\ SubSeq(s, Len(s) - Len(suffix) + 1, Len(s)) = suffix

\* s[:n]
Take(s, n) == SubSeq(s, 1, IF n > Len(s) THEN Len(s) ELSE n)

\* os.path.join(a, b) on paths kept as sequences of pieces
Join(a, b) == a \o <<"/">> \o b

\* short(rel_name)
short(rel_name) ==
    IF EndsWith(rel_name, <<".", "0">>) THEN SubSeq(rel_name, 1, Len(rel_name) - 2)
    ELSE rel_name

\* the lines input() can return that end yes()'s loop
Answers == {"", "y", "n"}

\* yes(msg, default) for the answer that ends its loop
yes(answer, default) == (IF answer = "" THEN default ELSE answer) = "y"

\* no(msg, default)
\* variant: only an explicit n is a no
no_emptyaccepts(answer, default) == answer = "n"
no(answer, default) == ~yes(answer, default)

\* a question put to the operator during the call-th step call, through
\* yes() or no(), and whether the operator's answer was no
Asked(id, via, answer, default) ==
    [id |-> id, via |-> via, call |-> Len(calls) + 1,
     declined |-> (IF answer = "" THEN default ELSE answer) = "n"]

\* ------------------------------------------------------- make_release.py

Dev == <<"d", "e", "v">>

\* the hash git prints for the release commit
Rev == <<"4", "f", "9", "a", "0", "c", "2", "e", "7", "b">>

\* tagged Python values of the conda_build_args argument
PyNone == [type |-> "NoneType"]
PyDict(items) == [type |-> "dict", items |-> items]
PyStr == [type |-> "str"]

\* what an outcome of a step is made of: how the call ends for run_steps,
\* what it did outside the process, what it asked, and the directories left
Out(result, eff, prm, f) == [result |-> result, eff |-> eff, prm |-> prm, fs |-> f]

CalledProcessError == Raise("CalledProcessError")
FileNotFoundError == Raise("FileNotFoundError")

\* lines 337-340: a public release name set_config refuses
\* variant: every name is accepted
Unsupported_never(release_name) == FALSE
Unsupported(release_name) ==
    IsSubstr(<<"p", "r", "e">>, release_name) \/ IsSubstr(<<"-">>, release_name)

\* set_config: the configuration, or the exception it raises
set_config(local_repository, package_name, module_name, release_name, branch, src_documentation, tmp_dir, conda_build_args) ==
    IF conda_build_args.type \notin {"NoneType", "dict"} THEN Raise("TypeError")
    ELSE LET public_release == release_name # Dev IN
         IF public_release /\ Unsupported(release_name) THEN Raise("ValueError")
         ELSE LET tmp == IF tmp_dir = None
                         THEN Join(<<"/tmp">>, <<module_name, "_release">>)
                         ELSE tmp_dir
              IN ReturnDict(
                    [branch |-> branch,
                     release_name |-> release_name,
                     package_name |-> package_name,
                     module_name |-> module_name,
                     local_repository |-> local_repository,
                     src_documentation |-> src_documentation,
                     tmp_dir |-> tmp,
                     build_dir |-> Join(tmp, <<"build">>),
                     conda_build_args |-> conda_build_args,
                     conda_recipe_path |-> <<"condarecipe/", package_name>>,
                     public_release |-> public_release])

\* steps_funcs (lines 300-316)
steps_funcs ==
    << [name |-> "check_local_repo", desc |-> ""],
       [name |-> "create_tmp_directory", desc |-> ""],
       [name |-> "clone_repository", desc |-> ""],
       [name |-> "check_clone", desc |-> ""],
       [name |-> "update_version", desc |-> ""],
       [name |-> "update_changelog", desc |-> "Updating changelog"],
       [name |-> "final_confirmation", desc |-> ""],
       [name |-> "tag_release", desc |-> "Tagging release"],
       [name |-> "push", desc |-> ""],
       [name |-> "push_on_pypi", desc |-> "Pushing on Pypi"],
       [name |-> "build_conda_packages", desc |-> ""],
       [name |-> "cleanup", desc |-> "Cleaning up"],
       [name |-> "pull_in_local_repo", desc |-> ""] >>

\* the functions of make_release.py that are not registered steps
UnregisteredNames == {"build_doc"}

\* the required parameters of each step function: the configuration keys
\* step_func(**config) must supply, else the call raises TypeError
Params(name) ==
    CASE name = "check_local_repo" -> {"local_repository", "branch", "release_name"}
      [] name = "create_tmp_directory" -> {"tmp_dir"}
      [] name = "clone_repository" -> {"tmp_dir", "branch", "upstream_repository"}
      [] name = "check_clone" -> {"build_dir", "public_release", "src_documentation",
                                  "release_name", "upstream_repository"}
      [] name = "update_version" -> {"build_dir", "release_name", "package_name",
                                     "module_name", "public_release"}
      [] name = "update_changelog" -> {"src_documentation", "build_dir", "public_release",
                                       "release_name"}
      [] name = "final_confirmation" -> {"public_release"}
      [] name = "tag_release" -> {"build_dir", "public_release", "release_name"}
      [] name = "push" -> {"build_dir", "public_release", "branch"}
      [] name = "push_on_pypi" -> {"build_dir", "public_release"}
      [] name = "build_conda_packages" -> {"conda_recipe_path", "build_dir", "conda_build_args"}
      [] name = "cleanup" -> {"tmp_dir"}
      [] name = "pull_in_local_repo" -> {"local_repository", "public_release", "build_dir",
                                         "branch"}

\* the loop body of run_steps for the registered step called name, whose
\* body can end in any of outcomes: binding **config to the parameters comes
\* first and raises TypeError when a required one is missing
Call(name, outcomes) ==
    /\ pc = "loop"
    /\ i <= Len(selected)
    /\ selected[i].name = name
    /\ IF ~(Params(name) \subseteq DOMAIN config)
       THEN /\ LoopBody(Raise("TypeError"))
            /\ UNCHANGED <<args, world, rest>>
       ELSE \E o \in outcomes :
            /\ LoopBody(o.result)
            /\ effects' = effects \o o.eff
            /\ prompts' = prompts \o o.prm
            /\ fs' = o.fs
            /\ UNCHANGED <<args, rest>>

\* check_local_repo (lines 22-82): the outcomes from line 71 on, after the
\* effects eff and the questions prm
\* variant: the returned dict also carries public_release, taken again
\* from the release name it returns
clr_release_republish(release_name, eff, prm, f) ==
    LET confirm(name) ==
            UNION { LET p == Append(prm, Asked("release_version", "no", a, "n")) IN
                    IF no(a, "n") THEN {Out(Exit1, eff, p, f)}
                    ELSE {Out(CalledProcessError, eff, p, f),
                          Out(ReturnDict([upstream_repository |-> <<"upstream-url">>,
                                          release_name |-> name,
                                          rev |-> Rev,
                                          public_release |-> name # Dev]), eff, p, f)}
                  : a \in Answers }
    IN IF release_name = Dev
       THEN {Out(CalledProcessError, eff, prm, f)} \cup confirm(Take(Rev, 7))
       ELSE {Out(CalledProcessError, eff, prm, f), Out(Raise("Exception"), eff, prm, f)}
            \cup confirm(release_name)
clr_release(release_name, eff, prm, f) ==
    LET confirm(name) ==
            UNION { LET p == Append(prm, Asked("release_version", "no", a, "n")) IN
                    IF no(a, "n") THEN {Out(Exit1, eff, p, f)}
                    ELSE {Out(CalledProcessError, eff, p, f),
                          Out(ReturnDict([upstream_repository |-> <<"upstream-url">>,
                                          release_name |-> name,
                                          rev |-> Rev]), eff, p, f)}
                  : a \in Answers }
    IN IF release_name = Dev
       THEN {Out(CalledProcessError, eff, prm, f)} \cup confirm(Take(Rev, 7))
       ELSE {Out(CalledProcessError, eff, prm, f), Out(Raise("Exception"), eff, prm, f)}
            \cup confirm(release_name)

\* check_local_repo: the outcomes from line 47 on
clr_upstream(release_name, eff, prm, f) ==
    {Out(CalledProcessError, eff, prm, f)}
    \cup UNION {
        LET num_behind == IF exists THEN nb ELSE 0
            num_ahead == IF exists THEN na ELSE 1
            offer(id, action) ==
                UNION { LET p == Append(prm, Asked(id, "yes", a, "y")) IN
                        IF yes(a, "y")
                        THEN {Out(CalledProcessError, eff, p, f)}
                             \cup clr_release(release_name, Append(eff, <<action>>), p, f)
                        ELSE clr_release(release_name, eff, p, f)
                      : a \in Answers }
        IN IF num_ahead # 0 /\ num_behind # 0 THEN {Out(Exit1, eff, prm, f)}
           ELSE IF num_behind # 0 THEN offer("merge", "merge_upstream")
           ELSE IF num_ahead # 0 THEN offer("push", "push_branch")
           ELSE clr_release(release_name, eff, prm, f)
      : exists \in BOOLEAN, nb \in {0, 1}, na \in {0, 1} }

check_local_repo(local_repository, branch, release_name, f) ==
    {Out(CalledProcessError, <<>>, <<>>, f)}
    \cup UNION {
        IF ~onbranch THEN {Out(Exit1, <<>>, <<>>, f)}
        ELSE LET fetch(prm) == {Out(CalledProcessError, <<>>, prm, f)}
                               \cup clr_upstream(release_name, <<<<"fetch">>>>, prm, f)
             IN IF dirty
                THEN UNION { LET p == <<Asked("continue", "no", a, "n")>> IN
                             IF no(a, "n") THEN {Out(Exit1, <<>>, p, f)} ELSE fetch(p)
                           : a \in Answers }
                ELSE fetch(<<>>)
      : onbranch \in BOOLEAN, dirty \in BOOLEAN }

\* create_tmp_directory (lines 85-88)
create_tmp_directory(tmp_dir, f) ==
    LET made == [tmp |-> TRUE, build |-> FALSE] IN
    IF f.tmp
    THEN {Out(Raise("Exception"), <<>>, <<>>, f),
          Out(ReturnNone, << <<"rmtree", tmp_dir>>, <<"makedirs", tmp_dir>> >>, <<>>, made)}
    ELSE {Out(ReturnNone, << <<"makedirs", tmp_dir>> >>, <<>>, made)}

\* clone_repository (lines 91-102)
clone_repository(tmp_dir, branch, upstream_repository, f) ==
    IF ~f.tmp THEN {Out(FileNotFoundError, <<>>, <<>>, f)}
    ELSE IF f.build THEN {Out(CalledProcessError, <<>>, <<>>, f)}
    ELSE {Out(CalledProcessError, <<>>, <<>>, f),
          Out(ReturnNone, << <<"clone", upstream_repository, branch>> >>, <<>>,
              [f EXCEPT !.build = TRUE])}

\* check_clone (lines 105-125)
check_clone(build_dir, public_release, src_documentation, release_name, upstream_repository, f) ==
    LET remote(prm) == {Out(CalledProcessError, <<>>, prm, f),
                        Out(ReturnNone, << <<"remote_add", upstream_repository>> >>, prm, f)}
        changes(prm) ==
            IF public_release
            THEN (IF src_documentation # None THEN {Out(FileNotFoundError, <<>>, prm, f)} ELSE {})
                 \cup UNION { LET p == Append(prm, Asked("release_changelog", "no", a, "n")) IN
                              IF no(a, "n") THEN {Out(Exit1, <<>>, p, f)} ELSE remote(p)
                            : a \in Answers }
            ELSE remote(prm)
    IN IF ~f.build THEN {Out(FileNotFoundError, <<>>, <<>>, f)}
       ELSE {Out(CalledProcessError, <<>>, <<>>, f)}
            \cup UNION { LET p == <<Asked("last_commit", "no", a, "n")>> IN
                         IF no(a, "n") THEN {Out(Exit1, <<>>, p, f)} ELSE changes(p)
                       : a \in Answers }

\* update_version (lines 135-167)
update_version(build_dir, release_name, package_name, module_name, public_release, f) ==
    LET version == short(release_name)
        meta == public_release /\ ~EndsWith(release_name, <<"-", "d", "e", "v">>)
        written == << <<"set_version", version, meta>> >>
    IN IF ~f.build THEN {Out(FileNotFoundError, <<>>, <<>>, f)}
       ELSE {Out(FileNotFoundError, <<>>, <<>>, f),
             Out(CalledProcessError, written, <<>>, f)}
            \cup UNION { LET p == <<Asked("version_update", "no", a, "n")>> IN
                         IF no(a, "n") THEN {Out(Exit1, written, p, f)}
                         ELSE {Out(CalledProcessError, written, p, f),
                               Out(ReturnNone, Append(written, <<"commit_version", version>>), p, f)}
                       : a \in Answers }

\* lines 183 and 187: 'changes.rst not modified (...)' is printed, for the
\* version title or for the release date
NotModified(what) == << <<"changes_not_modified", what>> >>

\* update_changelog (lines 170-202): title_ok is lines[3] being the expected
\* title, in_development is lines[6] being "In development."
\* variant: a changelog in another state than expected ends the run
update_changelog_strict(src_documentation, build_dir, public_release, release_name, f) ==
    IF src_documentation = None \/ ~public_release THEN {Out(ReturnNone, <<>>, <<>>, f)}
    ELSE IF ~f.build THEN {Out(FileNotFoundError, <<>>, <<>>, f)}
    ELSE {Out(FileNotFoundError, <<>>, <<>>, f), Out(Raise("IndexError"), <<>>, <<>>, f)}
         \cup UNION {
            IF ~title_ok THEN {Out(Exit1, NotModified("title"), <<>>, f)}
            ELSE IF ~in_development THEN {Out(Exit1, NotModified("release date"), <<>>, f)}
            ELSE LET written == << <<"set_release_date", short(release_name)>> >> IN
                 UNION { LET p == <<Asked("changelog", "no", a, "n")>> IN
                         IF no(a, "n") THEN {Out(Exit1, written, p, f)}
                         ELSE {Out(CalledProcessError, written, p, f),
                               Out(ReturnNone,
                                   Append(written, <<"commit_changelog", short(release_name)>>),
                                   p, f)}
                       : a \in Answers }
           : title_ok \in BOOLEAN, in_development \in BOOLEAN }

update_changelog(src_documentation, build_dir, public_release, release_name, f) ==
    IF src_documentation = None \/ ~public_release THEN {Out(ReturnNone, <<>>, <<>>, f)}
    ELSE IF ~f.build THEN {Out(FileNotFoundError, <<>>, <<>>, f)}
    ELSE {Out(FileNotFoundError, <<>>, <<>>, f), Out(Raise("IndexError"), <<>>, <<>>, f)}
         \cup UNION {
            IF ~title_ok THEN {Out(ReturnNone, NotModified("title"), <<>>, f)}
            ELSE IF ~in_development THEN {Out(ReturnNone, NotModified("release date"), <<>>, f)}
            ELSE LET written == << <<"set_release_date", short(release_name)>> >> IN
                 UNION { LET p == <<Asked("changelog", "no", a, "n")>> IN
                         IF no(a, "n") THEN {Out(Exit1, written, p, f)}
                         ELSE {Out(CalledProcessError, written, p, f),
                               Out(ReturnNone,
                                   Append(written, <<"commit_changelog", short(release_name)>>),
                                   p, f)}
                       : a \in Answers }
           : title_ok \in BOOLEAN, in_development \in BOOLEAN }

\* final_confirmation (lines 214-225)
\* variant: the answer is read but a no does not end the run
final_confirmation_noexit(public_release, f) ==
    IF ~public_release THEN {Out(ReturnNone, <<>>, <<>>, f)}
    ELSE {Out(ReturnNone, <<>>, <<Asked("final", "no", a, "n")>>, f) : a \in Answers}
final_confirmation(public_release, f) ==
    IF ~public_release THEN {Out(ReturnNone, <<>>, <<>>, f)}
    ELSE { LET p == <<Asked("final", "no", a, "n")>> IN
           IF no(a, "n") THEN Out(Exit1, <<>>, p, f) ELSE Out(ReturnNone, <<>>, p, f)
         : a \in Answers }

\* tag_release (lines 228-233)
\* variant: no test of public_release
tag_release_always(build_dir, public_release, release_name, f) ==
    IF ~f.build THEN {Out(FileNotFoundError, <<>>, <<>>, f)}
    ELSE {Out(CalledProcessError, <<>>, <<>>, f),
          Out(ReturnNone, << <<"tag", release_name>> >>, <<>>, f)}
tag_release(build_dir, public_release, release_name, f) ==
    IF ~public_release THEN {Out(ReturnNone, <<>>, <<>>, f)}
    ELSE IF ~f.build THEN {Out(FileNotFoundError, <<>>, <<>>, f)}
    ELSE {Out(CalledProcessError, <<>>, <<>>, f),
          Out(ReturnNone, << <<"tag", release_name>> >>, <<>>, f)}

\* push_on_pypi (lines 236-249)
push_on_pypi(build_dir, public_release, f) ==
    IF ~public_release THEN {Out(ReturnNone, <<>>, <<>>, f)}
    ELSE IF ~f.build THEN {Out(FileNotFoundError, <<>>, <<>>, f)}
    ELSE UNION { LET p == <<Asked("pypi", "no", a, "n")>> IN
                 IF no(a, "n") THEN {Out(Exit1, <<>>, p, f)}
                 ELSE {Out(CalledProcessError, <<>>, p, f),
                       Out(ReturnNone, << <<"pypi_upload">> >>, p, f)}
               : a \in Answers }

\* pull_in_local_repo (lines 252-259)
pull_in_local_repo(local_repository, public_release, build_dir, branch, f) ==
    IF ~public_release THEN {Out(ReturnNone, <<>>, <<>>, f)}
    ELSE IF ~f.build THEN {Out(CalledProcessError, <<>>, <<>>, f)}
    ELSE {Out(CalledProcessError, <<>>, <<>>, f),
          Out(ReturnNone, << <<"pull_local", branch>> >>, <<>>, f)}

\* push (lines 262-268)
push(build_dir, public_release, branch, f) ==
    IF ~public_release THEN {Out(ReturnNone, <<>>, <<>>, f)}
    ELSE IF ~f.build THEN {Out(FileNotFoundError, <<>>, <<>>, f)}
    ELSE {Out(CalledProcessError, <<>>, <<>>, f),
          Out(ReturnNone, << <<"push_upstream", branch>> >>, <<>>, f)}

\* build_conda_packages (lines 271-288)
build_conda_packages(conda_recipe_path, build_dir, conda_build_args, f) ==
    IF conda_recipe_path = None THEN {Out(ReturnNone, <<>>, <<>>, f)}
    ELSE IF ~f.build THEN {Out(FileNotFoundError, <<>>, <<>>, f)}
    ELSE LET cmd == <<"conda", "build">>
                    \o (IF conda_build_args.type = "dict" THEN conda_build_args.items ELSE <<>>)
                    \o <<conda_recipe_path>>
         IN {Out(CalledProcessError, <<>>, <<>>, f),
             Out(ReturnNone, << <<"conda_build", cmd>> >>, <<>>, f)}

\* cleanup (lines 291-293)
\* variant: the whole of tmp_dir is removed
cleanup_removetmp(tmp_dir, f) ==
    IF ~f.tmp THEN {Out(FileNotFoundError, <<>>, <<>>, f)}
    ELSE {Out(Raise("Exception"), <<>>, <<>>, f),
          Out(ReturnNone, << <<"rmtree", tmp_dir>> >>, <<>>, [tmp |-> FALSE, build |-> FALSE])}
cleanup(tmp_dir, f) ==
    IF ~f.tmp THEN {Out(FileNotFoundError, <<>>, <<>>, f)}
    ELSE IF ~f.build THEN {Out(Raise("Exception"), <<>>, <<>>, f)}
    ELSE {Out(Raise("Exception"), <<>>, <<>>, f),
          Out(ReturnNone, << <<"rmtree", Join(tmp_dir, <<"build">>)>> >>, <<>>,
              [f EXCEPT !.build = FALSE])}

\* ---------------------------------------- run_steps' loop body, per step

Run_check_local_repo ==
    Call("check_local_repo",
         check_local_repo(config.local_repository, config.branch, config.release_name, fs))

Run_create_tmp_directory ==
    Call("create_tmp_directory", create_tmp_directory(config.tmp_dir, fs))

Run_clone_repository ==
    Call("clone_repository",
         clone_repository(config.tmp_dir, config.branch, config.upstream_repository, fs))

Run_check_clone ==
    Call("check_clone",
         check_clone(config.build_dir, config.public_release, config.src_documentation,
                     config.release_name, config.upstream_repository, fs))

Run_update_version ==
    Call("update_version",
         update_version(config.build_dir, config.release_name, config.package_name,
                        config.module_name, config.public_release, fs))

Run_update_changelog ==
    Call("update_changelog",
         update_changelog(config.src_documentation, config.build_dir, config.public_release,
                          config.release_name, fs))

Run_final_confirmation ==
    Call("final_confirmation", final_confirmation(config.public_release, fs))

Run_tag_release ==
    Call("tag_release",
         tag_release(config.build_dir, config.public_release, config.release_name, fs))

Run_push ==
    Call("push", push(config.build_dir, config.public_release, config.branch, fs))

Run_push_on_pypi ==
    Call("push_on_pypi", push_on_pypi(config.build_dir, config.public_release, fs))

Run_build_conda_packages ==
    Call("build_conda_packages",
         build_conda_packages(config.conda_recipe_path, config.build_dir,
                              config.conda_build_args, fs))

Run_cleanup ==
    Call("cleanup", cleanup(config.tmp_dir, fs))

Run_pull_in_local_repo ==
    Call("pull_in_local_repo",
         pull_in_local_repo(config.local_repository, config.public_release,
                            config.build_dir, config.branch, fs))

\* ---------------------------------------------------------- make_release

\* make_release up to run_steps (lines 390-393): config = set_config(...)
MakeRelease ==
    /\ pc = "make_release"
    /\ LET r == set_config(args.local_repository, args.package_name, args.module_name,
                           args.release_name, args.branch, args.src_documentation,
                           args.tmp_dir, args.conda_build_args)
       IN IF r.kind = "raise"
          THEN /\ pc' = "raised"
               /\ error' = r.value.type
               /\ exit_status' = 1
               /\ UNCHANGED config
          ELSE /\ pc' = "resolve"
               /\ config' = r.value.val
               /\ UNCHANGED <<error, exit_status>>
    /\ UNCHANGED <<registry, steps_filter, start, stop, selected, i, calls, trace,
                   args, world, rest>>

\* the release names a run is started with
ReleaseNames == { Dev, <<"0", ".", "8", ".", "0">>,
                  <<"0", ".", "8", "p", "r", "e">>, <<"0", "-", "8">> }

\* the selectors a run is started with: a name, a range with either side
\* possibly empty, and the empty string
ReleaseTokens == {steps_funcs[k].name : k \in 1..Len(steps_funcs)} \cup UnregisteredNames
ReleaseSelectors ==
    {<<>>, <<Sep>>}
    \cup {<<a>> : a \in ReleaseTokens}
    \cup {<<a, Sep>> : a \in ReleaseTokens}
    \cup {<<Sep, b>> : b \in ReleaseTokens}
    \cup {<<a, Sep, b>> : a, b \in ReleaseTokens}

\* make_release's arguments
ReleaseArgs ==
    [local_repository : {<<"~/devel/larray">>},
     package_name : {"larray"},
     module_name : {"larray"},
     release_name : ReleaseNames,
     branch : {"master"},
     src_documentation : {None, <<"doc", "/", "source">>},
     tmp_dir : {None},
     conda_build_args : {PyNone, PyDict(<<"--user", "larray-project">>), PyStr}]

InitRelease ==
    /\ registry = steps_funcs
    /\ steps_filter \in ReleaseSelectors
    /\ args \in ReleaseArgs
    /\ config = <<>>
    /\ pc = "make_release"
    /\ start = None
    /\ stop = None
    /\ selected = <<>>
    /\ i = 1
    /\ calls = <<>>
    /\ trace = <<>>
    /\ error = ""
    /\ exit_status = None
    /\ fs \in {[tmp |-> FALSE, build |-> FALSE], [tmp |-> TRUE, build |-> FALSE],
               [tmp |-> TRUE, build |-> TRUE]}
    /\ effects = <<>>
    /\ prompts = <<>>
    /\ RestIdle

NextRelease ==
    \/ MakeRelease
    \/ RunStepsResolve
    \/ Run_check_local_repo
    \/ Run_create_tmp_directory
    \/ Run_clone_repository
    \/ Run_check_clone
    \/ Run_update_version
    \/ Run_update_changelog
    \/ Run_final_confirmation
    \/ Run_tag_release
    \/ Run_push
    \/ Run_push_on_pypi
    \/ Run_build_conda_packages
    \/ Run_cleanup
    \/ Run_pull_in_local_repo
    \/ RunStepsReturn

SpecRelease == InitRelease /\ [][NextRelease]_vars

\* ========================================================= claims, run_steps

\* the selector was resolved: run_steps reached its loop
Resolved == pc \in {"loop", "done", "exited"} \/ (pc = "raised" /\ calls # <<>>)

\* the call recorded as c did not return normally to a successful merge
Failed(c) == c.result.kind # "return" \/ c.result.value.type \notin {"NoneType", "dict"}

\* the call recorded as c returned a mapping
GaveDict(c) == c.result.kind = "return" /\ c.result.value.type = "dict"

\* the configuration expected after the first n calls, given the one before
\* the first call: each key holds what the latest of those calls that
\* returned a mapping with the key gave it, else its first value
MergedAfter(cfg0, n) ==
    LET givers(key) == {j \in 1..n : GaveDict(calls[j]) /\ key \in DOMAIN calls[j].result.value.val}
        last(key) == CHOOSE j \in givers(key) : \A l \in givers(key) : l <= j
        keys == DOMAIN cfg0 \cup UNION {DOMAIN calls[j].result.value.val : j \in {l \in 1..n : GaveDict(calls[l])}}
    IN [key \in keys |-> IF givers(key) = {} THEN cfg0[key]
                         ELSE calls[last(key)].result.value.val[key]]

\* the resolved sub-range of the registry
SubRange == SubSeq(registry, start + 1, stop)

\* C1: run_steps calls exactly the steps of the resolved sub-range, each once
\* and in registry order (at any moment a prefix of it, all of it on return),
\* and each call sees the configuration with the mappings returned by all
\* earlier calls merged in, later values overwriting earlier ones.
C1_RunsRangeInOrderMerging ==
    Resolved =>
        /\ Len(calls) <= Len(SubRange)
        /\ \A k \in 1..Len(calls) : calls[k].name = SubRange[k].name
        /\ pc = "done" => Len(calls) = Len(SubRange)
        /\ \A k \in 1..Len(calls) : calls[k].cfg = MergedAfter(InitConfig, k - 1)

C1_Witness ==
    /\ pc = "done"
    /\ Len(calls) = 3
    /\ GaveDict(calls[1]) /\ GaveDict(calls[2])
    /\ calls[3].cfg["k1"] = 2
    /\ DOMAIN calls[3].cfg # DOMAIN InitConfig

\* the selector is "a:b"
IsRange(a, b) == steps_filter = <<a, Sep, b>>

\* C2 as stated: for "a:b" with a and b registered, the executed sub-range is
\* non-empty, starts at a step named a and ends at a step named b.
C2_Original ==
    \A a, b \in PoolNames :
        (IsRange(a, b) /\ Contains(FuncNames(registry), a) /\ Contains(FuncNames(registry), b)
            /\ pc # "resolve")
        => /\ Resolved
           /\ selected # <<>>
           /\ selected[1].name = a
           /\ selected[Len(selected)].name = b

\* C2 amended: the same, for "a:b" where the first step named a is not after
\* the first step named b in the registry.
C2_InclusiveRange ==
    \A a, b \in PoolNames :
        (IsRange(a, b) /\ Contains(FuncNames(registry), a) /\ Contains(FuncNames(registry), b)
            /\ FirstPos(FuncNames(registry), a) <= FirstPos(FuncNames(registry), b)
            /\ pc # "resolve")
        => /\ Resolved
           /\ selected # <<>>
           /\ selected[1].name = a
           /\ selected[Len(selected)].name = b
           /\ pc = "done" => FuncNames(calls) = FuncNames(selected)

C2_Witness ==
    /\ pc = "done"
    /\ Len(registry) = 3
    /\ IsRange(registry[1].name, registry[2].name)
    /\ registry[1].name # registry[2].name
    /\ Len(calls) = 2

\* C3: in a resolved range selector an empty start name gives start index 0
\* and an empty stop name gives exclusive stop index len(names); ":" selects
\* every registered step.
C3_EmptyBounds ==
    (Resolved /\ Contains(steps_filter, Sep)) =>
        /\ steps_filter[1] = Sep => start = 0
        /\ steps_filter[Len(steps_filter)] = Sep => stop = Len(registry)
        /\ steps_filter = <<Sep>> =>
              /\ selected = registry
              /\ pc = "done" => FuncNames(calls) = FuncNames(registry)

C3_Witness ==
    /\ pc = "done"
    /\ steps_filter = <<Sep>>
    /\ Len(registry) = 3
    /\ Len(calls) = 3

\* C4: a selector without separator that is the name of a registered step
\* runs exactly that one step: start is the name's index, stop is start + 1.
C4_SingleStep ==
    \A n \in PoolNames :
        (steps_filter = <<n>> /\ Contains(FuncNames(registry), n) /\ pc # "resolve") =>
            /\ Resolved
            /\ start = FirstPos(FuncNames(registry), n) - 1
            /\ stop = start + 1
            /\ Len(calls) <= 1
            /\ \A k \in 1..Len(calls) : calls[k].name = n
            /\ pc = "done" => Len(calls) = 1

C4_Witness ==
    /\ pc = "done"
    /\ Len(registry) = 3
    /\ steps_filter = <<registry[2].name>>
    /\ registry[1].name # registry[2].name
    /\ Len(calls) = 1
    /\ calls[1].name = registry[2].name

\* a name given in the selector is not the name of a registered step: the
\* whole selector when it has no separator, else a non-empty side of the one
\* separator
Registered(part) == Len(part) = 1 /\ \E k \in 1..Len(registry) : registry[k].name = part[1]
UnknownName ==
    IF \A k \in 1..Len(steps_filter) : steps_filter[k] # Sep
    THEN ~Registered(steps_filter)
    ELSE \E p \in 1..Len(steps_filter) :
            /\ steps_filter[p] = Sep
            /\ \A q \in 1..Len(steps_filter) : steps_filter[q] = Sep => q = p
            /\ LET a == SubSeq(steps_filter, 1, p - 1)
                   b == SubSeq(steps_filter, p + 1, Len(steps_filter))
               IN (a # <<>> /\ ~Registered(a)) \/ (b # <<>> /\ ~Registered(b))

\* C5: with an unregistered name in the selector run_steps fails during
\* resolution: no step has been called, nothing was printed and the
\* configuration is as passed in.
C5_UnknownNameFails ==
    (UnknownName /\ pc # "resolve") =>
        /\ pc = "raised"
        /\ error = "ValueError"
        /\ exit_status = 1
        /\ calls = <<>>
        /\ trace = <<>>
        /\ config = InitConfig

C5_Witness ==
    /\ pc = "raised"
    /\ Len(registry) = 2
    /\ registry[1].name # registry[2].name
    /\ Len(steps_filter) = 3
    /\ steps_filter[1] = registry[1].name
    /\ steps_filter[2] = Sep
    /\ steps_filter[3] \notin {registry[1].name, registry[2].name, Sep}

\* C7: a failed call (exit, exception, or a returned value that is neither
\* None nor a mapping) is the last call of the run, the run has ended, and
\* the configuration holds the merged updates of all calls before it.
C7_FailFastNoRollback ==
    \A k \in 1..Len(calls) :
        Failed(calls[k]) =>
            /\ k = Len(calls)
            /\ pc \in {"exited", "raised"}
            /\ exit_status = 1
            /\ trace[Len(trace)] = <<"invoke", calls[k].name>>
            /\ Cardinality({t \in 1..Len(trace) : trace[t][1] = "invoke"}) = k
            /\ config = MergedAfter(InitConfig, k - 1)

C7_Witness ==
    /\ pc \in {"exited", "raised"}
    /\ Len(calls) = 2
    /\ Len(selected) = 3
    /\ GaveDict(calls[1])
    /\ Failed(calls[2])
    /\ config # InitConfig

\* the notifications and invocations expected for the first n calls
RECURSIVE ExpectedTrace(_)
ExpectedTrace(n) ==
    IF n = 0 THEN <<>>
    ELSE LET desc == SubRange[n].desc
             noted == desc # ""
         IN ExpectedTrace(n - 1)
            \o (IF noted THEN <<<<"start", desc>>>> ELSE <<>>)
            \o <<<<"invoke", calls[n].name>>>>
            \o (IF noted /\ ~Failed(calls[n]) THEN <<<<"done", desc>>>> ELSE <<>>)

\* C8: per executed step, in order: a start notification right before the
\* call and a done notification right after it returns, both only when the
\* description is non-empty, and no done notification when the call fails.
\* With registry [A("msg"), B(""), C("msg2")] and selector "B:C" a completed
\* run calls B then C and notifies only around C.
C8_Notifications ==
    Resolved =>
        /\ trace = ExpectedTrace(Len(calls))
        /\ (/\ FuncNames(registry) = <<"A", "B", "C">>
            /\ IsRange("B", "C")
            /\ pc = "done")
           => trace = << <<"invoke", "B">>, <<"start", "msg2">>,
                         <<"invoke", "C">>, <<"done", "msg2">> >>

C8_Witness ==
    /\ FuncNames(registry) = <<"A", "B", "C">>
    /\ IsRange("B", "C")
    /\ pc = "done"
    /\ Len(trace) = 4

C8_WitnessFailed ==
    /\ pc = "raised"
    /\ Len(calls) = 1
    /\ calls[1].name = "A"
    /\ trace = << <<"start", "msg">>, <<"invoke", "A">> >>


\* ================================================ claims, release pipeline

\* C6 as stated: once the operator has declined a question asked by a step,
\* the run has ended with exit status 1 and the asking call is the last one.
C6_Original ==
    \A k \in 1..Len(prompts) :
        prompts[k].declined =>
            /\ pc = "exited"
            /\ exit_status = 1
            /\ prompts[k].call = Len(calls)

\* C6 amended: once the operator has declined a confirmation asked through
\* "if no(...): exit(1)", the run has ended by exit(1) with status 1, and the
\* asking call is the last call; a declined merge or push offer of
\* check_local_repo (asked through yes()) only leaves that action undone.
C6_DeclinedGateExits ==
    \A k \in 1..Len(prompts) :
        prompts[k].declined =>
            IF prompts[k].via = "no"
            THEN /\ pc = "exited"
                 /\ error = "SystemExit"
                 /\ exit_status = 1
                 /\ k = Len(prompts)
                 /\ prompts[k].call = Len(calls)
                 /\ calls[Len(calls)].result = Exit1
            ELSE /\ prompts[k].id \in {"merge", "push"}
                 /\ calls[prompts[k].call].name = "check_local_repo"
                 /\ prompts[k].id = "merge" => ~Contains(effects, <<"merge_upstream">>)
                 /\ prompts[k].id = "push" => ~Contains(effects, <<"push_branch">>)

C6_Witness ==
    /\ pc = "exited"
    /\ exit_status = 1
    /\ Len(calls) = 5
    /\ Len(selected) = 13
    /\ prompts[Len(prompts)].id = "version_update"
    /\ prompts[Len(prompts)].declined

\* C9 as stated: every step call of a run of the default pipeline is made
\* with all the configuration keys the step consumes present.
C9_Original ==
    \A k \in 1..Len(calls) : Params(calls[k].name) \subseteq DOMAIN calls[k].cfg

\* the run is a dev build
DevRun == "public_release" \in DOMAIN config /\ ~config.public_release

EffectKinds == {effects[k][1] : k \in 1..Len(effects)}

\* the step called name was called and returned
Completed(name) ==
    \E k \in 1..Len(calls) : calls[k].name = name /\ calls[k].result = ReturnNone

\* C10 as stated: in a dev build nothing from the tag on happens: no tag, no
\* push by the push step, no upload, no conda build, and no cleanup.
C10_Original ==
    DevRun =>
        /\ EffectKinds \cap {"tag", "push_upstream", "pypi_upload", "conda_build"} = {}
        /\ ~Completed("cleanup")

\* C10 amended: in a dev build no tag is created, nothing is pushed by the
\* push step, nothing is uploaded to the package index and nothing is pulled
\* into the local repository: those steps, called with their keys, return at
\* once without asking anything. build_conda_packages and cleanup do not look
\* at public_release: when they return, conda build has run and the build
\* directory has been removed.
C10_DevSkipsPublicSteps ==
    DevRun =>
        /\ EffectKinds \cap {"tag", "push_upstream", "pypi_upload", "pull_local"} = {}
        /\ \A k \in 1..Len(calls) :
              (/\ calls[k].name \in {"final_confirmation", "tag_release", "push",
                                     "push_on_pypi", "pull_in_local_repo"}
               /\ Params(calls[k].name) \subseteq DOMAIN calls[k].cfg)
              => calls[k].result = ReturnNone
        /\ \A k \in 1..Len(prompts) : prompts[k].id \notin {"final", "pypi"}
        /\ Completed("build_conda_packages") => "conda_build" \in EffectKinds
        /\ Completed("cleanup") => Contains(effects, <<"rmtree", config.build_dir>>)

C10_Witness ==
    /\ DevRun
    /\ pc = "done"
    /\ steps_filter = <<Sep>>
    /\ Len(calls) = 13
    /\ "conda_build" \in EffectKinds
    /\ Completed("tag_release")
    /\ Completed("cleanup")
    /\ ~fs.build

\* ====================================================== insert_step_func

\* bound: insert_step_func calls in one customisation
MaxInserts == 2

\* an int argument, tagged as the PyNone it is told from
PyInt(k) == [type |-> "int", val |-> k]

\* list.insert(index, x): a negative index counts from the end and the
\* position is clamped to the list
\* variant: the entry always goes to the end
ListInsert_append(s, index, x) == Append(s, x)
ListInsert(s, index, x) ==
    LET n == Len(s)
        k0 == IF index < 0 THEN index + n ELSE index
        k == IF k0 < 0 THEN 0 ELSE IF k0 > n THEN n ELSE k0
    IN SubSeq(s, 1, k) \o <<x>> \o SubSeq(s, k + 1, n)

\* sum([index is not None, before is not None, after is not None])
Supplied(index, before, after) ==
    (IF index.type # "NoneType" THEN 1 ELSE 0)
    + (IF before # None THEN 1 ELSE 0)
    + (IF after # None THEN 1 ELSE 0)

\* line 320: the arguments pass the check
\* variant: only the absence of all three is refused
ChoiceMade_atleastone(index, before, after) == Supplied(index, before, after) >= 1
ChoiceMade(index, before, after) == Supplied(index, before, after) = 1

\* insert_step_func (lines 319-327) on the list steps: the call's result and
\* the list afterwards
insert_step_func(steps, func, msg, index, before, after) ==
    LET func_names == FuncNames(steps)
        failed == [result |-> Raise("ValueError"), steps |-> steps]
        inserted(k) == [result |-> ReturnNone,
                        steps |-> ListInsert(steps, k, [name |-> func, desc |-> msg])]
    IN IF ~ChoiceMade(index, before, after) THEN failed
       ELSE IF before # None
            THEN IF Index(func_names, <<before>>).found
                 THEN inserted(Index(func_names, <<before>>).pos) ELSE failed
       ELSE IF after # None
            THEN IF Index(func_names, <<after>>).found
                 THEN inserted(Index(func_names, <<after>>).pos + 1) ELSE failed
       ELSE inserted(index.val)

\* the functions a customisation inserts: one that is already a step and one
\* of make_release.py that is not, with their messages
InsertFuncs == { [name |-> "cleanup", desc |-> "Cleaning up"],
                 [name |-> "build_doc", desc |-> "Building doc"] }

\* the index, before and after arguments of the calls
InsertIndexes == {PyNone, PyInt(0), PyInt(6), PyInt(13), PyInt(20), PyInt(-1)}
InsertNames == {None, "check_local_repo", "cleanup", "pull_in_local_repo", "build_doc"}

\* one insert_step_func call on the module's steps_funcs; an exception ends
\* the customisation
InsertStepFunc ==
    /\ pc = "insert"
    /\ insert_call.n < MaxInserts
    /\ \E func \in InsertFuncs, index \in InsertIndexes, before, after \in InsertNames :
       LET r == insert_step_func(registry, func.name, func.desc, index, before, after)
       IN /\ registry' = r.steps
          /\ insert_call' = [n |-> insert_call.n + 1, func |-> func.name, msg |-> func.desc,
                             index |-> index, before |-> before, after |-> after,
                             steps_before |-> registry, result |-> r.result]
          /\ IF r.result.kind = "raise"
             THEN /\ pc' = "raised"
                  /\ error' = r.result.value.type
                  /\ exit_status' = 1
             ELSE UNCHANGED <<pc, error, exit_status>>
    /\ UNCHANGED <<steps_filter, config, start, stop, selected, i, calls, trace,
                   args, world, console, argv, entry, fn>>

InitInsert ==
    /\ registry = steps_funcs
    /\ pc = "insert"
    /\ insert_call = NoInsert
    /\ RunIdle
    /\ args = None
    /\ WorldIdle
    /\ console = None
    /\ argv = <<>>
    /\ entry = None
    /\ fn = None

NextInsert == InsertStepFunc

SpecInsert == InitInsert /\ [][NextInsert]_vars

\* ------------------------------------------- claims about insert_step_func

\* an insert_step_func call has been made
Inserted == pc \in {"insert", "raised"} /\ insert_call.n > 0

\* C11: insert_step_func raises ValueError and leaves the step list as it
\* was whenever the number of arguments supplied among index, before and
\* after is not exactly one (none, two or all three)
C11_AmbiguousInsertRefused ==
    (Inserted /\ Supplied(insert_call.index, insert_call.before, insert_call.after) # 1)
    => /\ pc = "raised"
       /\ error = "ValueError"
       /\ insert_call.result = Raise("ValueError")
       /\ registry = insert_call.steps_before

\* two of the three are supplied, both naming a valid place
C11_Witness ==
    /\ Inserted
    /\ insert_call.index = PyInt(0)
    /\ insert_call.before = "cleanup"
    /\ insert_call.after = None
    /\ pc = "raised"

\* none is supplied
C11_WitnessNone ==
    /\ Inserted
    /\ Supplied(insert_call.index, insert_call.before, insert_call.after) = 0
    /\ pc = "raised"

\* no name occurs twice in a list of names
Distinct(names) == \A j, k \in 1..Len(names) : names[j] = names[k] => j = k

\* C12 (as claimed): after any sequence of insert_step_func calls on the
\* default step list the step names are pairwise distinct
C12_Original == pc \in {"insert", "raised"} => Distinct(FuncNames(registry))

\* ------------------------------------------ claims about run_steps, continued

\* the call returned an object that is neither None nor a dict
GaveOther(c) == c.result.kind = "return" /\ c.result.value.type \notin {"NoneType", "dict"}

\* C13: when a step returns an object that is neither None nor a mapping,
\* run_steps fails on its check of the object's type (the isinstance
\* assertion), the configuration is as it was when the step was called,
\* and no later step is invoked
C13_WrongUpdateTypeFails ==
    \A k \in 1..Len(calls) :
        GaveOther(calls[k])
        => /\ k = Len(calls)
           /\ pc = "raised"
           /\ error = "AssertionError"
           /\ exit_status = 1
           /\ config = calls[k].cfg
           /\ i = k

\* a step after an updating step returns a string although a step is left
C13_Witness ==
    /\ Len(calls) = 2
    /\ GaveDict(calls[1])
    /\ GaveOther(calls[2])
    /\ Len(selected) = 3
    /\ config # InitConfig

\* ================================== the entry points of make_release.py
\* run_steps on an arbitrary registry, make_release on the default
\* pipeline, and insert_step_func on the default pipeline

InitAll == Init \/ InitRelease \/ InitInsert

NextAll == Next \/ NextRelease \/ NextInsert

SpecAll == InitAll /\ [][NextAll]_vars

\* the state is one of a make_release call
InRelease == registry = steps_funcs /\ pc # "insert" /\ insert_call.n = 0

\* set_config raised: make_release ended without a configuration
SetConfigRaised == InRelease /\ pc = "raised" /\ config = <<>>

\* insert_step_func refused its arguments
InsertRefused ==
    /\ Inserted
    /\ Supplied(insert_call.index, insert_call.before, insert_call.after) # 1

\* the last step called returned an object of the wrong type
UpdateRefused == calls # <<>> /\ GaveOther(calls[Len(calls)])

\* nothing has been done: no step called, nothing printed, asked or done
\* outside the process
NothingDone == calls = <<>> /\ trace = <<>> /\ effects = <<>> /\ prompts = <<>>

\* C14 (as claimed): each of the three validation errors is raised before
\* the operation it ends (make_release, insert_step_func, run_steps) has had
\* any side effect
C14_Original ==
    (SetConfigRaised \/ InsertRefused \/ UpdateRefused)
    => /\ NothingDone
       /\ Inserted => registry = insert_call.steps_before

\* C14: make_release with a public release name containing 'pre' or '-'
\* raises from set_config before any step is invoked or anything is done;
\* insert_step_func with an ambiguous choice raises before the list is
\* touched; a configuration update of the wrong type is refused before it
\* is merged and before any later step, but only after the step that
\* returned it (and every step before it) has run
C14_ValidationBeforeEffect ==
    /\ (/\ InRelease
        /\ pc # "make_release"
        /\ args.release_name # Dev
        /\ \/ IsSubstr(<<"p", "r", "e">>, args.release_name)
           \/ Contains(args.release_name, "-"))
       => /\ pc = "raised"
          /\ error = (IF args.conda_build_args.type = "str" THEN "TypeError" ELSE "ValueError")
          /\ config = <<>>
          /\ NothingDone
    /\ SetConfigRaised => NothingDone
    /\ InsertRefused
       => /\ pc = "raised"
          /\ error = "ValueError"
          /\ registry = insert_call.steps_before
          /\ NothingDone
    /\ UpdateRefused
       => /\ pc = "raised"
          /\ error = "AssertionError"
          /\ config = calls[Len(calls)].cfg
          /\ trace[Len(trace)] = <<"invoke", calls[Len(calls)].name>>

\* make_release('0.8pre') and make_release('0-8') ended in set_config
C14_Witness ==
    /\ SetConfigRaised
    /\ error = "ValueError"
    /\ steps_filter = <<Sep>>
    /\ Contains(args.release_name, "-")

\* a step's wrong-typed return value is refused after an earlier step ran
C14_WitnessUpdate == UpdateRefused /\ Len(calls) = 2 /\ pc = "raised"

\* an ambiguous insert_step_func call is refused
C14_WitnessInsert == InsertRefused /\ pc = "raised"

\* C15 (as claimed): the empty selector resolves to the default range, the
\* whole registry, as ":" does, and resolution does not fail
C15_Original ==
    (steps_filter = <<>> /\ pc \notin {"resolve", "insert"})
    => /\ Resolved
       /\ start = 0
       /\ stop = Len(registry)

\* C15: the empty selector is no selector: run_steps with "" raises
\* ValueError while resolving it, whatever the registry, before any step is
\* invoked or anything is printed; the default range is what ":" selects,
\* and a run with ":" that returns has called every registered step
C15_EmptySelectorFails ==
    /\ (steps_filter = <<>> /\ pc \notin {"resolve", "insert"})
       => /\ pc = "raised"
          /\ error = "ValueError"
          /\ calls = <<>>
          /\ trace = <<>>
          /\ config = InitConfig
    /\ (steps_filter = <<Sep>> /\ pc = "done")
       => [k \in 1..Len(calls) |-> calls[k].name] = FuncNames(registry)

\* run_steps with "" on a registry of three steps has raised
C15_Witness ==
    /\ steps_filter = <<>>
    /\ Len(registry) = 3
    /\ pc = "raised"
    /\ error = "ValueError"

\* run_steps with ":" on a registry of three steps has returned
C15_WitnessDefault == steps_filter = <<Sep>> /\ Len(registry) = 3 /\ pc = "done"

\* ============================================================ yes() and no()

\* bound: lines yes() reads for one question
MaxReads == 3

\* the lines the operator types
InputLines == {"", "y", "Y", "n", "N", "yes", "YES", "x", " y"}

\* str.lower() on those lines
\* variant: the line is taken as typed
Lower_astyped(line) == line
Lower(line) ==
    CASE line = "Y" -> "y"
      [] line = "N" -> "n"
      [] line = "YES" -> "yes"
      [] OTHER -> line

\* a question asked through func ("yes" or "no") with the given default:
\* nothing read yet (answer = None, line 122)
Question(func, default) ==
    [func |-> func, default |-> default, lines |-> <<>>, answer |-> None,
     hints |-> 0, returned |-> FALSE, result |-> FALSE]

\* one iteration of yes()'s loop (lines 123-126): the hint is printed when a
\* line has been read before, then a line is read and lowered
YesRead ==
    /\ pc = "ask"
    /\ console.answer \notin Answers
    /\ Len(console.lines) < MaxReads
    /\ \E line \in InputLines :
       console' = [console EXCEPT
                     !.hints = IF console.answer # None THEN @ + 1 ELSE @,
                     !.lines = Append(@, line),
                     !.answer = Lower(line)]
    /\ UNCHANGED <<run, args, world, insert_call, argv, entry, fn>>

\* the loop has ended: yes() returns (line 127), no() its negation (line 131)
YesReturn ==
    /\ pc = "ask"
    /\ console.answer \in Answers
    /\ console' = [console EXCEPT
                     !.returned = TRUE,
                     !.result = IF console.func = "yes"
                                THEN yes(console.answer, console.default)
                                ELSE no(console.answer, console.default)]
    /\ pc' = "answered"
    /\ UNCHANGED <<registry, steps_filter, config, start, stop, selected, i,
                   calls, trace, error, exit_status>>
    /\ UNCHANGED <<args, world, insert_call, argv, entry, fn>>

InitPrompt ==
    /\ pc = "ask"
    /\ console \in {Question(func, default) : func \in {"yes", "no"}, default \in {"y", "n"}}
    /\ registry = <<>>
    /\ RunIdle
    /\ args = None
    /\ WorldIdle
    /\ insert_call = NoInsert
    /\ argv = <<>>
    /\ entry = None
    /\ fn = None

NextPrompt == YesRead \/ YesReturn

SpecPrompt == InitPrompt /\ [][NextPrompt]_vars

\* ------------------------------------------------ claims about yes() and no()

\* the line, whatever its case, is one of those that end the loop
EndsLoop(line) == line \in {"", "y", "Y", "n", "N"}

\* C16: yes() reads lines until one is empty, 'y' or 'n' whatever its case,
\* printing the hint once for every other line before reading again; it
\* returns true exactly when that line is 'y' or 'Y', or is empty with
\* default 'y'; no() returns the negation, so that an empty line on a no()
\* question with default 'n' is a decline
C16_PromptLoop ==
    pc \in {"ask", "answered"}
    => LET n == Len(console.lines)
           last == console.lines[n]
           accepted == last \in {"y", "Y"} \/ (last = "" /\ console.default = "y")
       IN /\ \A k \in 1..(n - 1) : ~EndsLoop(console.lines[k])
          /\ console.hints = (IF n = 0 THEN 0 ELSE n - 1)
          /\ (n > 0 /\ EndsLoop(last)) => console.answer \in Answers
          /\ pc = "answered"
             => /\ n > 0
                /\ EndsLoop(last)
                /\ console.returned
                /\ console.func = "yes" => console.result = accepted
                /\ console.func = "no" => console.result = ~accepted
                /\ (console.func = "no" /\ console.default = "n" /\ last = "")
                   => console.result

\* no() with default 'n' returned true for an empty line read after two
\* lines that were refused
C16_Witness ==
    /\ pc = "answered"
    /\ console.func = "no"
    /\ console.default = "n"
    /\ console.lines = <<"YES", "x", "">>
    /\ console.hints = 2
    /\ console.result

\* yes() returned true for 'Y'
C16_WitnessUpper ==
    /\ pc = "answered"
    /\ console.func = "yes"
    /\ console.lines = <<"Y">>
    /\ console.result

\* ------------------------------------- claims about the release pipeline, continued

\* update_changelog printed that changes.rst is not modified
ChangelogLeft == "changes_not_modified" \in EffectKinds

\* the position in calls of the call of the step called name
CallOf(name) == CHOOSE k \in 1..Len(calls) : calls[k].name = name

\* C17: when update_changelog, in a public release with a documentation
\* directory, finds another version title than "Version <short name>" or
\* another release date line than "In development.", it returns without
\* writing changes.rst, without asking anything and without committing, and
\* run_steps goes on with the next step
C17_ChangelogSoftSkip ==
    ChangelogLeft
    => /\ config.public_release
       /\ config.src_documentation # None
       /\ \E k \in 1..Len(calls) : calls[k].name = "update_changelog"
       /\ LET c == CallOf("update_changelog") IN
          /\ calls[c].result = ReturnNone
          /\ c < Len(calls) => calls[c + 1].name = "final_confirmation"
          /\ c = Len(calls) => /\ pc \in {"loop", "done"}
                               /\ error = ""
                               /\ i = Len(calls) + 1
          /\ \E t \in 1..(Len(trace) - 1) :
                /\ trace[t] = <<"invoke", "update_changelog">>
                /\ trace[t + 1] = <<"done", "Updating changelog">>
          /\ \A q \in 1..Len(prompts) : prompts[q].call # c
       /\ EffectKinds \cap {"set_release_date", "commit_changelog"} = {}
       /\ \A q \in 1..Len(prompts) : prompts[q].id # "changelog"

\* the title did not match and the next step has been called
C17_Witness ==
    /\ \E k \in 1..Len(effects) : effects[k] = <<"changes_not_modified", "title">>
    /\ \E k \in 1..Len(calls) : calls[k].name = "final_confirmation"

\* the release date line did not match and the run has returned
C17_WitnessDate ==
    /\ \E k \in 1..Len(effects) : effects[k] = <<"changes_not_modified", "release date">>
    /\ pc = "done"

\* a make_release call with the default selector
FullRun == InRelease /\ steps_filter = <<Sep>>

\* this step of the run is the call of the step called name, and it returns
Returns(name) ==
    /\ Len(calls') = Len(calls) + 1
    /\ calls'[Len(calls')].name = name
    /\ calls'[Len(calls')].result = ReturnNone

C18_TmpDirState ==
    FullRun
    => /\ Completed("create_tmp_directory") => fs.tmp
       /\ Completed("cleanup") => (fs.tmp /\ ~fs.build)
       /\ pc = "done" => /\ Len(calls) = Len(steps_funcs)
                         /\ calls[Len(calls) - 1].name = "cleanup"
                         /\ calls[Len(calls)].name = "pull_in_local_repo"

\* C18, what the two steps do: create_tmp_directory removes a temporary
\* directory that exists and then makes it, so that it is empty; cleanup
\* removes build_dir and nothing else
C18_TmpDirSteps ==
    FullRun
    => /\ Returns("create_tmp_directory")
          => /\ fs' = [tmp |-> TRUE, build |-> FALSE]
             /\ effects' = effects
                  \o (IF fs.tmp THEN << <<"rmtree", config.tmp_dir>> >> ELSE <<>>)
                  \o << <<"makedirs", config.tmp_dir>> >>
       /\ Returns("cleanup")
          => /\ fs.tmp /\ fs.build
             /\ fs' = [tmp |-> TRUE, build |-> FALSE]
             /\ effects' = Append(effects, <<"rmtree", config.build_dir>>)

MaxArgs == 4

\* the words of a command line
ArgWords == {"larray", "0.8.0", "next", ":", "master"}
CommandLines == {<<"main.py">> \o a : a \in SeqsUpTo(ArgWords, MaxArgs)}

\* the parameters of make_release (line 390) and of add_release
\* (next_release.py line 53), in order, those without default first
MakeReleaseParams ==
    [names |-> <<"local_repository", "package_name", "module_name", "release_name",
                 "steps_filter", "branch", "src_documentation", "tmp_dir",
                 "conda_build_args">>,
     required |-> 3,
     defaults |-> [release_name |-> "dev", steps_filter |-> ":", branch |-> "master",
                   src_documentation |-> None, tmp_dir |-> None,
                   conda_build_args |-> None]]
AddReleaseParams ==
    [names |-> <<"local_repository", "package_name", "module_name", "release_name",
                 "branch", "src_documentation", "changelog_index_template">>,
     required |-> 4,
     defaults |-> [branch |-> "master", src_documentation |-> None,
                   changelog_index_template |-> None]]

\* func(*positional): the parameters bound in order, the others at their
\* default; TypeError when a parameter without default gets no argument or
\* there are more arguments than parameters
BindPositional(params, positional) ==
    IF Len(positional) < params.required \/ Len(positional) > Len(params.names)
    THEN [ok |-> FALSE, kwargs |-> <<>>]
    ELSE [ok |-> TRUE,
          kwargs |-> [p \in {params.names[k] : k \in 1..Len(params.names)} |->
                        LET k == FirstPos(params.names, p)
                        IN IF k <= Len(positional) THEN positional[k]
                           ELSE params.defaults[p]]]

\* del argv[k] for a 0-based k
Del(s, k) == SubSeq(s, 1, k) \o SubSeq(s, k + 2, Len(s))

\* the arguments pass the test of line 10
EnoughArgs(line) == ~(Len(line) < 3)

\* main.py called func with the arguments positional
Entered(func, positional, kwargs) == [func |-> func, positional |-> positional, kwargs |-> kwargs]

\* main.py lines 9-19
Main ==
    /\ pc = "main"
    /\ IF ~EnoughArgs(argv)
       THEN /\ entry' = Entered("usage", <<>>, <<>>)
            /\ pc' = "exited"
            /\ exit_status' = 0
            /\ UNCHANGED error
       ELSE IF Len(argv) < 4
       THEN /\ entry' = Entered(None, <<>>, <<>>)
            /\ pc' = "raised"
            /\ error' = "IndexError"
            /\ exit_status' = 1
       ELSE LET next == argv[4] = "next"
                positional == IF next THEN Del(SubSeq(argv, 2, Len(argv)), 2)
                              ELSE SubSeq(argv, 2, Len(argv))
                b == BindPositional(IF next THEN AddReleaseParams ELSE MakeReleaseParams,
                                    positional)
            IN IF b.ok
               THEN /\ entry' = Entered(IF next THEN "add_release" ELSE "make_release",
                                        positional, b.kwargs)
                    /\ pc' = "entered"
                    /\ UNCHANGED <<error, exit_status>>
               ELSE /\ entry' = Entered(None, positional, <<>>)
                    /\ pc' = "raised"
                    /\ error' = "TypeError"
                    /\ exit_status' = 1
    /\ UNCHANGED <<registry, steps_filter, config, start, stop, selected, i, calls, trace>>
    /\ UNCHANGED <<args, world, insert_call, console, argv, fn>>

InitMain ==
    /\ pc = "main"
    /\ argv \in CommandLines
    /\ entry = None
    /\ registry = steps_funcs
    /\ RunIdle
    /\ args = None
    /\ WorldIdle
    /\ insert_call = NoInsert
    /\ console = None
    /\ fn = None

NextMain == Main

SpecMain == InitMain /\ [][NextMain]_vars

\* ------------------------------------------------------ claims about main.py

\* C19 (as claimed): the step argument is optional: a command line of
\* exactly package_name and release_name starts make_release for that
\* package and release with the default step selector, and one of fewer
\* than two arguments prints the usage and exits with status 0
C19_Original ==
    pc \in {"entered", "exited", "raised"}
    => /\ Len(argv) = 3
          => /\ pc = "entered"
             /\ entry.func = "make_release"
             /\ entry.kwargs.package_name = argv[2]
             /\ entry.kwargs.release_name = argv[3]
             /\ entry.kwargs.steps_filter = ":"
       /\ Len(argv) < 3
          => /\ pc = "exited"
             /\ entry.func = "usage"
             /\ exit_status = 0

\* ========================================================= long_release_name

\* bound: characters of a release name given to long_release_name
MaxNameLen == 5

\* the characters of those names
NameChars == {"0", ".", "a", "b", "c", "r"}
VersionStrings == SeqsUpTo(NameChars, MaxNameLen)

\* str.count(ch)
Count(s, ch) == Cardinality({k \in 1..Len(s) : s[k] = ch})

\* \d
IsDigit(ch) == ch \in {"0", "1", "2", "3", "4", "5", "6", "7", "8", "9"}

\* the pre-release tags in the order pretag_pos tries them (line 199)
PreTags == << <<"r", "c">>, <<"c">>, <<"b", "e", "t", "a">>, <<"b">>,
              <<"a", "l", "p", "h", "a">>, <<"a">> >>

\* the 0-based positions at which tag + r'\d+' matches in s
MatchStarts(tag, s) ==
    {k \in 0..(Len(s) - Len(tag) - 1) :
        /\ SubSeq(s, k + 1, k + Len(tag)) = tag
        /\ IsDigit(s[k + Len(tag) + 1])}

\* the least element of a non-empty set of naturals
Least(S) == CHOOSE k \in S : \A j \in S : k <= j

\* pretag_pos (lines 189-203): re.search gives the leftmost match of the
\* first tag that matches at all; found = FALSE is the None returned
pretag_pos(release_name) ==
    LET matching == {t \in 1..Len(PreTags) : MatchStarts(PreTags[t], release_name) # {}}
    IN IF matching = {} THEN [found |-> FALSE, pos |-> 0]
       ELSE [found |-> TRUE,
             pos |-> Least(MatchStarts(PreTags[Least(matching)], release_name))]

\* line 180: the name is returned as it is
\* variant: only from three dots on
AlreadyLong_three(dotcount) == dotcount >= 3
AlreadyLong(dotcount) == dotcount >= 2

\* what a call gives: the string returned, or the exception raised
Returned(val) == [ok |-> TRUE, val |-> val, exc |-> ""]
Raised(exc) == [ok |-> FALSE, val |-> <<>>, exc |-> exc]

\* long_release_name (lines 167-186)
long_release_name(release_name) ==
    LET dotcount == Count(release_name, ".") IN
    IF AlreadyLong(dotcount) THEN Returned(release_name)
    ELSE IF dotcount # 1 THEN Raised("AssertionError")
    ELSE LET p == pretag_pos(release_name) IN
         IF p.found
         THEN Returned(SubSeq(release_name, 1, p.pos) \o <<".", "0">>
                       \o SubSeq(release_name, p.pos + 1, Len(release_name)))
         ELSE Returned(release_name \o <<".", "0">>)

\* long_release_name is called on arg, then on what it returned
Applying(arg) == [name |-> "long_release_name", arg |-> arg,
                  out |-> Returned(<<>>), again |-> Returned(<<>>)]

Apply ==
    /\ pc = "apply"
    /\ LET r == long_release_name(fn.arg) IN
       /\ fn' = [fn EXCEPT !.out = r]
       /\ IF r.ok
          THEN /\ pc' = "applied"
               /\ UNCHANGED <<error, exit_status>>
          ELSE /\ pc' = "raised"
               /\ error' = r.exc
               /\ exit_status' = 1
    /\ UNCHANGED <<registry, steps_filter, config, start, stop, selected, i, calls, trace>>
    /\ UNCHANGED <<args, world, insert_call, console, argv, entry>>

ApplyAgain ==
    /\ pc = "applied"
    /\ LET r == long_release_name(fn.out.val) IN
       /\ fn' = [fn EXCEPT !.again = r]
       /\ IF r.ok
          THEN /\ pc' = "reapplied"
               /\ UNCHANGED <<error, exit_status>>
          ELSE /\ pc' = "raised"
               /\ error' = r.exc
               /\ exit_status' = 1
    /\ UNCHANGED <<registry, steps_filter, config, start, stop, selected, i, calls, trace>>
    /\ UNCHANGED <<args, world, insert_call, console, argv, entry>>

InitPure ==
    /\ pc = "apply"
    /\ fn \in {Applying(x) : x \in VersionStrings}
    /\ registry = <<>>
    /\ RunIdle
    /\ args = None
    /\ WorldIdle
    /\ insert_call = NoInsert
    /\ console = None
    /\ argv = <<>>
    /\ entry = None

NextPure == Apply \/ ApplyAgain

SpecPure == InitPure /\ [][NextPure]_vars

\* -------------------------------------------- claims about long_release_name

\* C20 (as claimed): long_release_name returns for every string, and
\* applying it to what it returned returns the same again
C20_Original ==
    /\ pc # "raised"
    /\ pc = "reapplied" => fn.again = fn.out

\* C20: for every string with at least one dot long_release_name returns,
\* what it returns has at least two dots, and applied to that it returns
\* the same again; for a string without a dot it fails its assertion on the
\* number of dots
C20_IdempotentOnDotted ==
    pc # "apply"
    => LET dots == Count(fn.arg, ".") IN
       /\ dots = 0 => /\ pc = "raised"
                      /\ error = "AssertionError"
                      /\ ~fn.out.ok
       /\ dots >= 1 => /\ pc \in {"applied", "reapplied"}
                       /\ fn.out.ok
                       /\ Count(fn.out.val, ".") >= 2
                       /\ pc = "reapplied" => fn.again = fn.out

\* '0.0a0' became '0.0.0a0' and stayed so
C20_Witness ==
    /\ pc = "reapplied"
    /\ fn.arg = <<"0", ".", "0", "a", "0">>
    /\ fn.out.val = <<"0", ".", "0", ".", "0", "a", "0">>
    /\ fn.again = fn.out

\* a name without a dot was refused
C20_WitnessNoDot == pc = "raised" /\ fn.arg = <<"0", "r", "c", "0">>

\* ============================================== strip_pretags, isprerelease

\* strip_pretags (lines 206-217): release_name[:pos], or the name as it is
strip_pretags(release_name) ==
    LET p == pretag_pos(release_name)
    IN IF p.found THEN SubSeq(release_name, 1, p.pos) ELSE release_name

\* isprerelease (lines 220-230)
isprerelease(release_name) == pretag_pos(release_name).found

\* strip_pretags is called on arg, isprerelease on what it returned
Stripping(arg) == [name |-> "strip_pretags", arg |-> arg, out |-> <<>>, pre |-> FALSE]

StripPretags ==
    /\ pc = "strip"
    /\ fn' = [fn EXCEPT !.out = strip_pretags(fn.arg)]
    /\ pc' = "stripped"
    /\ UNCHANGED <<registry, steps_filter, config, start, stop, selected, i, calls, trace,
                   error, exit_status>>
    /\ UNCHANGED <<args, world, insert_call, console, argv, entry>>

IsPrerelease ==
    /\ pc = "stripped"
    /\ fn' = [fn EXCEPT !.pre = isprerelease(fn.out)]
    /\ pc' = "tested"
    /\ UNCHANGED <<registry, steps_filter, config, start, stop, selected, i, calls, trace,
                   error, exit_status>>
    /\ UNCHANGED <<args, world, insert_call, console, argv, entry>>

InitStrip ==
    /\ pc = "strip"
    /\ fn \in {Stripping(x) : x \in VersionStrings}
    /\ registry = <<>>
    /\ RunIdle
    /\ args = None
    /\ WorldIdle
    /\ insert_call = NoInsert
    /\ console = None
    /\ argv = <<>>
    /\ entry = None

NextStrip == StripPretags \/ IsPrerelease

SpecStrip == InitStrip /\ [][NextStrip]_vars

\* ------------------------------------------------ claims about strip_pretags

\* C21 (as claimed): for every string x, what strip_pretags(x) returns
\* holds no pre-release tag: isprerelease of it is false
C21_Original == pc = "tested" => ~fn.pre

\* ============================================================= replace_lines

\* bounds: lines of the file, pairs in changes
MaxLines == 2
MaxChanges == 2

\* the lines readlines() gives, each with its line end
FileLines == { <<"x", "\n">>, <<"#", "x", "\n">>, <<" ", "#", "x", "\n">>,
               <<"x", "#", "\n">>, <<"y", "\n">>, <<"x", "y", "\n">>,
               <<"\n">>, <<"z", "\n">> }

\* the pairs (substring_to_find, new_line) of changes
ChangePairs == { [find |-> <<"x">>, new |-> <<"X">>],
                 [find |-> <<"y">>, new |-> <<"Y">>],
                 [find |-> <<"x", "y">>, new |-> <<"Z">>] }

\* the characters str.strip() removes
Whitespace == {" ", "\t", "\n", "\r"}

\* str.strip()
RECURSIVE Strip(_)
Strip(s) ==
    IF s = <<>> THEN s
    ELSE IF s[1] \in Whitespace THEN Strip(Tail(s))
    ELSE IF s[Len(s)] \in Whitespace THEN Strip(SubSeq(s, 1, Len(s) - 1))
    ELSE s

\* line.strip().startswith('#')
\* variant: no line is taken for a comment
IsComment_never(line) == FALSE
IsComment(line) == Strip(line) # <<>> /\ Strip(line)[1] = "#"

\* the inner loop of replace_lines (lines 263-265) from the k-th pair on:
\* what lines[i] is after it, being cur before and line in the file
RECURSIVE ApplyChanges(_, _, _, _, _)
ApplyChanges(line, cur, changes, k, end) ==
    IF k > Len(changes) THEN cur
    ELSE IF IsSubstr(changes[k].find, line) /\ ~IsComment(line)
         THEN ApplyChanges(line, changes[k].new \o <<end>>, changes, k + 1, end)
         ELSE ApplyChanges(line, cur, changes, k + 1, end)

\* replace_lines (lines 251-267): the lines written back
replace_lines(lines, changes, end) ==
    [n \in 1..Len(lines) |-> ApplyChanges(lines[n], lines[n], changes, 1, end)]

\* replace_lines is called on a file of these lines
Replacing(lines, changes) ==
    [name |-> "replace_lines", lines |-> lines, changes |-> changes, out |-> <<>>]

ReplaceLines ==
    /\ pc = "replace"
    /\ fn' = [fn EXCEPT !.out = replace_lines(fn.lines, fn.changes, "\n")]
    /\ pc' = "replaced"
    /\ UNCHANGED <<registry, steps_filter, config, start, stop, selected, i, calls, trace,
                   error, exit_status>>
    /\ UNCHANGED <<args, world, insert_call, console, argv, entry>>

InitReplace ==
    /\ pc = "replace"
    /\ fn \in {Replacing(l, c) : l \in SeqsUpTo(FileLines, MaxLines),
                                 c \in SeqsUpTo(ChangePairs, MaxChanges)}
    /\ registry = <<>>
    /\ RunIdle
    /\ args = None
    /\ WorldIdle
    /\ insert_call = NoInsert
    /\ console = None
    /\ argv = <<>>
    /\ entry = None

NextReplace == ReplaceLines

SpecReplace == InitReplace /\ [][NextReplace]_vars

\* ------------------------------------------------ claims about replace_lines

\* the first character of the line that is not a blank is '#'
CommentLine(line) ==
    \E k \in 1..Len(line) :
        /\ line[k] = "#"
        /\ \A j \in 1..(k - 1) : line[j] = " "

\* the positions in changes of the markers the line contains
Markers(line, changes) == {k \in 1..Len(changes) : IsSubstr(changes[k].find, line)}

\* the greatest element of a non-empty set of naturals
Greatest(S) == CHOOSE k \in S : \A j \in S : j <= k

\* C22: replace_lines writes back as many lines as it read, in the same
\* order; a line that contains a marker and is not a comment line is
\* replaced by the new line of the last marker of the list it contains;
\* comment lines and lines without a marker are as they were
C22_ReplaceMarkedLines ==
    pc = "replaced"
    => /\ Len(fn.out) = Len(fn.lines)
       /\ \A n \in 1..Len(fn.lines) :
            LET line == fn.lines[n]
                hits == Markers(line, fn.changes)
            IN IF hits # {} /\ ~CommentLine(line)
               THEN fn.out[n] = fn.changes[Greatest(hits)].new \o <<"\n">>
               ELSE fn.out[n] = line

\* a commented-out marker line is kept and the line with both markers gets
\* the new line of the later of the two
C22_Witness ==
    /\ pc = "replaced"
    /\ fn.lines = << <<" ", "#", "x", "\n">>, <<"x", "y", "\n">> >>
    /\ fn.changes = << [find |-> <<"y">>, new |-> <<"Y">>], [find |-> <<"x">>, new |-> <<"X">>] >>
    /\ fn.out = << <<" ", "#", "x", "\n">>, <<"X", "\n">> >>

\* ------------------------------- claims about insert_step_func, continued

\* the list without its p-th entry (1-based)
RemoveAt(s, p) == SubSeq(s, 1, p - 1) \o SubSeq(s, p + 1, Len(s))

\* the last call's entry is the p-th (1-based) of the list, which is
\* otherwise the list before the call
PlacedAt(p) ==
    /\ p \in 1..Len(registry)
    /\ registry[p] = [name |-> insert_call.func, desc |-> insert_call.msg]
    /\ RemoveAt(registry, p) = insert_call.steps_before

\* the last call supplied exactly one of index, before and after
ValidInsert ==
    /\ Inserted
    /\ Supplied(insert_call.index, insert_call.before, insert_call.after) = 1

\* C23 (as claimed): a valid call with index=i has put the entry at position
\* i of the list
C23_Original ==
    (ValidInsert /\ insert_call.index.type = "int")
    => PlacedAt(insert_call.index.val + 1)

\* C23: a call with exactly one of index, before and after adds exactly one
\* entry and keeps the others in their order: before=name puts it
\* immediately before the first step called name, after=name immediately
\* after it, index=i at position i when 0 <= i <= len(list), at the end
\* when i is greater and at len(list) + i (at least 0) when i is negative;
\* a before or after name that is not registered makes the call raise
\* ValueError with the list unchanged
C23_InsertPlacement ==
    ValidInsert
    => LET old == insert_call.steps_before
           names == FuncNames(old)
           n == Len(old)
           ok(p) == /\ insert_call.result = ReturnNone
                    /\ pc = "insert"
                    /\ Len(registry) = n + 1
                    /\ PlacedAt(p)
           refused == /\ insert_call.result = Raise("ValueError")
                      /\ pc = "raised"
                      /\ error = "ValueError"
                      /\ registry = old
       IN /\ insert_call.before # None
             => IF Contains(names, insert_call.before)
                THEN /\ ok(FirstPos(names, insert_call.before))
                     /\ registry[FirstPos(names, insert_call.before) + 1].name
                           = insert_call.before
                ELSE refused
          /\ insert_call.after # None
             => IF Contains(names, insert_call.after)
                THEN /\ ok(FirstPos(names, insert_call.after) + 1)
                     /\ registry[FirstPos(names, insert_call.after)].name
                           = insert_call.after
                ELSE refused
          /\ insert_call.index.type = "int"
             => LET k == insert_call.index.val
                IN ok(IF k > n THEN n + 1
                      ELSE IF k >= 0 THEN k + 1
                      ELSE IF n + k >= 0 THEN n + k + 1
                      ELSE 1)

\* build_doc has been put immediately before cleanup
C23_Witness ==
    /\ ValidInsert
    /\ insert_call.before = "cleanup"
    /\ insert_call.func = "build_doc"
    /\ registry[12].name = "build_doc"
    /\ registry[13].name = "cleanup"
    /\ Len(registry) = 14

\* an index beyond the end has put the entry last
C23_WitnessBeyond ==
    /\ ValidInsert
    /\ insert_call.index = PyInt(20)
    /\ registry[Len(registry)].name = insert_call.func

\* the name given as before is not registered
C23_WitnessUnknown ==
    /\ ValidInsert
    /\ insert_call.before = "build_doc"
    /\ pc = "raised"

\* ------------------------------------- claims about the release pipeline, continued

\* the k-th call was made after cleanup had removed build_dir
AfterCleanup(k) ==
    \E j \in 1..(k - 1) : calls[j].name = "cleanup" /\ calls[j].result = ReturnNone

\* C24 (as claimed): pull_in_local_repo, which in a public release pulls
\* from build_dir, is not called after cleanup has removed build_dir
C24_Original ==
    InRelease
    => \A k \in 1..Len(calls) :
          (calls[k].name = "pull_in_local_repo" /\ config.public_release)
          => ~AfterCleanup(k)

\* ------------------------------------------- claims: the final confirmation

\* a public release made with the default selector
PublicFullRun == FullRun /\ "public_release" \in DOMAIN config /\ config.public_release

\* what the tag_release, push and push_on_pypi steps do outside the process
Publishing == {"tag", "push_upstream", "pypi_upload"}

\* the question id was put during the k-th step call and accepted
AcceptedIn(id, k) ==
    \E q \in 1..Len(prompts) :
       prompts[q].id = id /\ prompts[q].call = k /\ ~prompts[q].declined

\* the question id was put to the operator and declined
Declined(id) == \E q \in 1..Len(prompts) : prompts[q].id = id /\ prompts[q].declined

\* the step that makes each publishing effect
Publisher(kind) ==
    CASE kind = "tag" -> "tag_release"
      [] kind = "push_upstream" -> "push"
      [] kind = "pypi_upload" -> "push_on_pypi"

\* C25: in a public release made with the selector ':', a tag, a push by the
\* push step or an upload happens only in a step called after
\* final_confirmation returned on an accepted question, the upload only in
\* the push_on_pypi call whose own question was accepted; a declined final
\* confirmation ends the run with none of the three done, and a declined
\* upload question ends it with no upload and no step after push_on_pypi.
C25_FinalConfirmationGates ==
    PublicFullRun =>
        /\ \A kind \in Publishing \cap EffectKinds :
              \E k \in 1..Len(calls), j \in 1..Len(calls) :
                 /\ j < k
                 /\ calls[k].name = Publisher(kind)
                 /\ calls[j].name = "final_confirmation"
                 /\ calls[j].result = ReturnNone
                 /\ AcceptedIn("final", j)
        /\ "pypi_upload" \in EffectKinds
              => AcceptedIn("pypi", CallOf("push_on_pypi"))
        /\ Declined("final")
              => /\ pc = "exited"
                 /\ calls[Len(calls)].name = "final_confirmation"
                 /\ Publishing \cap EffectKinds = {}
        /\ Declined("pypi")
              => /\ pc = "exited"
                 /\ calls[Len(calls)].name = "push_on_pypi"
                 /\ "pypi_upload" \notin EffectKinds

\* reached: a public release tagged, pushed and uploaded after both questions
C25_Witness ==
    /\ PublicFullRun
    /\ Publishing \subseteq EffectKinds
    /\ AcceptedIn("final", CallOf("final_confirmation"))
    /\ AcceptedIn("pypi", CallOf("push_on_pypi"))

\* reached: the final confirmation declined, the run over
C25_WitnessDeclinedFinal == PublicFullRun /\ Declined("final")

\* reached: the upload declined after the tag and the push
C25_WitnessDeclinedUpload ==
    PublicFullRun /\ Declined("pypi") /\ {"tag", "push_upstream"} \subseteq EffectKinds

\* C25 (as claimed): in a public release made with the selector ':', nothing
\* is tagged, pushed upstream or uploaded before final_confirmation has
\* returned on an accepted question
C25_Original ==
    PublicFullRun =>
        ((Publishing \cup {"push_branch"}) \cap EffectKinds # {}
            => \E j \in 1..Len(calls) :
                  /\ calls[j].name = "final_confirmation"
                  /\ calls[j].result = ReturnNone
                  /\ AcceptedIn("final", j))

\* reached: check_local_repo has pushed the branch, and later the release is
\* published after the final confirmation
C25_WitnessEarlyPush ==
    PublicFullRun /\ "push_branch" \in EffectKinds /\ Publishing \subseteq EffectKinds

\* ------------------------------------------------- claims: public_release

\* make_release has built its configuration
Configured == InRelease /\ "public_release" \in DOMAIN config

\* C26: from set_config on, public_release is whether the release name
\* make_release was called with differs from 'dev', whatever the steps have
\* returned since, and release_name is that name or, once check_local_repo
\* has returned in a dev run, the first 7 characters of the commit hash.
C26_PublicReleaseFixed ==
    Configured =>
        /\ config.public_release = (args.release_name # Dev)
        /\ config.release_name \in {args.release_name, Take(Rev, 7)}
        /\ config.release_name # args.release_name
              => /\ args.release_name = Dev
                 /\ \E k \in 1..Len(calls) :
                       /\ calls[k].name = "check_local_repo"
                       /\ calls[k].result.kind = "return"

\* C26, step by step: no step of the run changes public_release
C26_NoStepChanges ==
    [][(Configured /\ Configured') => config'.public_release = config.public_release]_vars

\* reached: a dev run whose release_name is now the short hash, a name other
\* than 'dev', and whose public_release is still false, steps run after it
C26_Witness ==
    /\ Configured
    /\ args.release_name = Dev
    /\ config.release_name = Take(Rev, 7)
    /\ ~config.public_release
    /\ Len(calls) > 1
    /\ calls[1].name = "check_local_repo"

\* --------------------------------------------------------- next_release.py

\* the parameters of make_release.set_config (lines 330-331)
SetConfigParams ==
    {"local_repository", "package_name", "module_name", "release_name", "branch",
     "src_documentation", "tmp_dir", "conda_build_args"}

\* the keyword arguments add_release passes to set_config (line 59)
AddReleaseKeywords == {"changelog_index_template", "create_build_dir"}

\* the parameters of next_release.update_changelog (line 22)
NextChangelogParams ==
    {"src_documentation", "build_dir", "release_name", "changelog_index_template"}

DEFAULT_CHANGELOG_INDEX_TEMPLATE == <<"{title}", "{underline}", "In development.">>

\* next_release.update_changelog (lines 22-50): title_there is lines[3]
\* being the title of the release
next_release_update_changelog(src_documentation, build_dir, release_name, changelog_index_template, f) ==
    IF ~f.build THEN {Out(FileNotFoundError, <<>>, <<>>, f)}
    ELSE {Out(FileNotFoundError, <<>>, <<>>, f),
          Out(ReturnNone, NotModified("title"), <<>>, f)}
         \cup UNION { LET p == <<Asked("next_changelog", "no", a, "n")>>
                          written == << <<"add_version", short(release_name),
                                          changelog_index_template>> >>
                      IN IF no(a, "n") THEN {Out(Exit1, written, p, f)}
                         ELSE {Out(CalledProcessError, written, p, f),
                               Out(ReturnNone, Append(written, <<"git_add_changelog">>), p, f)}
                    : a \in Answers }

\* how a call of add_release ends: with what result, configuration, calls
\* made, effects, questions and directories
NextEnd(result, cfg, done, eff, prm, f) ==
    [result |-> result, config |-> cfg, calls |-> done, eff |-> eff, prm |-> prm, fs |-> f]

\* add_release (lines 53-65): binding the keywords of line 59 to
\* set_config's parameters comes before set_config's body
add_release(a, f) ==
    LET template == IF a.changelog_index_template = None
                    THEN DEFAULT_CHANGELOG_INDEX_TEMPLATE
                    ELSE a.changelog_index_template
    IN IF ~(AddReleaseKeywords \subseteq SetConfigParams)
       THEN {NextEnd(Raise("TypeError"), <<>>, <<>>, <<>>, <<>>, f)}
       ELSE LET r == set_config(a.local_repository, a.package_name, a.module_name,
                                a.release_name, a.branch, a.src_documentation,
                                None, PyNone)
            IN IF r.kind = "raise" THEN {NextEnd(r, <<>>, <<>>, <<>>, <<>>, f)}
               ELSE LET cfg == r.value.val
                        cfg2 == [cfg EXCEPT !.release_name = a.release_name \o <<"-", "d", "e", "v">>]
                        changelog ==
                            IF a.src_documentation = None THEN {Out(ReturnNone, <<>>, <<>>, f)}
                            ELSE IF ~(NextChangelogParams \subseteq DOMAIN cfg)
                            THEN {Out(Raise("TypeError"), <<>>, <<>>, f)}
                            ELSE next_release_update_changelog(cfg.src_documentation,
                                     cfg.build_dir, cfg.release_name, template, f)
                        first(o) ==
                            IF a.src_documentation = None THEN <<>>
                            ELSE << [name |-> "update_changelog", cfg |-> cfg,
                                     result |-> o.result] >>
                    IN UNION {
                         IF o.result # ReturnNone
                         THEN {NextEnd(o.result, cfg, first(o), o.eff, o.prm, o.fs)}
                         ELSE { NextEnd(v.result, cfg2,
                                        Append(first(o), [name |-> "update_version", cfg |-> cfg2,
                                                          result |-> v.result]),
                                        o.eff \o v.eff, o.prm \o v.prm, v.fs)
                                : v \in update_version(cfg2.build_dir, cfg2.release_name,
                                                       cfg2.package_name, cfg2.module_name,
                                                       cfg2.public_release, o.fs) }
                       : o \in changelog }

\* the names the next cycle is started for
NextReleaseNames == { <<"0", ".", "8", ".", "0">>, <<"0", ".", "8", ".", "1">>,
                      <<"0", ".", "9">>, <<"1", ".", "0">> }

\* add_release's arguments
AddReleaseArgs ==
    [local_repository : {<<"~/devel/larray">>},
     package_name : {"larray", "larray-editor"},
     module_name : {"larray"},
     release_name : NextReleaseNames,
     branch : {"master", "next"},
     src_documentation : {None, <<"doc", "/", "source">>},
     changelog_index_template : {None, <<"{title}", "{fname}">>}]

\* the call add_release(*argv[1:]) of main.py line 17, from its first line
\* to its return or to the exception that leaves it
AddRelease ==
    /\ pc = "add_release"
    /\ \E o \in add_release(args, fs) :
          /\ pc' = CASE o.result.kind = "raise" -> "raised"
                     [] o.result.kind = "exit" -> "exited"
                     [] OTHER -> "done"
          /\ error' = IF o.result.kind = "return" THEN "" ELSE o.result.value.type
          /\ exit_status' = IF o.result.kind = "return" THEN 0 ELSE 1
          /\ config' = o.config
          /\ calls' = o.calls
          /\ effects' = o.eff
          /\ prompts' = o.prm
          /\ fs' = o.fs
    /\ UNCHANGED <<registry, steps_filter, start, stop, selected, i, trace>>
    /\ UNCHANGED <<args, rest>>

InitNext ==
    /\ registry = steps_funcs
    /\ RunIdle
    /\ pc = "add_release"
    /\ error = ""
    /\ exit_status = None
    /\ args \in AddReleaseArgs
    /\ fs \in {[tmp |-> FALSE, build |-> FALSE], [tmp |-> TRUE, build |-> TRUE]}
    /\ effects = <<>>
    /\ prompts = <<>>
    /\ RestIdle

NextNext == AddRelease

SpecNext == InitNext /\ [][NextNext]_vars

\* --------------------------------------------------- claims: the next flow

\* the calls add_release is to make, by name
NextFlow(a) ==
    (IF a.src_documentation = None THEN <<>> ELSE <<"update_changelog">>)
    \o <<"update_version">>

\* add_release is over
NextOver == registry = steps_funcs /\ pc \in {"done", "raised", "exited"} /\ fn = None
            /\ insert_call.n = 0 /\ steps_filter = <<>> /\ entry = None

\* C27 (as claimed): add_release builds its configuration, and the calls it
\* has made when it returns are update_changelog (when src_documentation is
\* given) then update_version, the latter with release_name + '-dev'
C27_Original ==
    (NextOver /\ args \in AddReleaseArgs)
    => /\ config # <<>>
       /\ pc = "done"
             => /\ [k \in 1..Len(calls) |-> calls[k].name] = NextFlow(args)
                /\ calls[Len(calls)].cfg.release_name
                      = args.release_name \o <<"-", "d", "e", "v">>

\* ------------------------------------------------------ update_feedstock.py

\* update_feedstock.steps_funcs (lines 58-67)
feedstock_steps_funcs ==
    << [name |-> "create_tmp_directory", desc |-> ""],
       [name |-> "clone_repository", desc |-> ""],
       [name |-> "update_version_conda_forge_package", desc |-> ""],
       [name |-> "push_conda_forge", desc |-> ""],
       [name |-> "cleanup", desc |-> "Cleaning up"] >>

\* set_config_conda (lines 70-83)
set_config_conda(main_repository, feedstock_repository, module_name, version, branch, tmp_dir) ==
    LET tmp == IF tmp_dir = None
               THEN Join(<<"/tmp">>, <<module_name, "_feedstock">>)
               ELSE tmp_dir
    IN [module_name |-> module_name,
        branch |-> branch,
        version |-> version,
        main_repository |-> main_repository,
        repository |-> feedstock_repository,
        tmp_dir |-> tmp,
        build_dir |-> Join(tmp, <<"build">>)]

\* the signatures of the steps of update_feedstock.steps_funcs: the names a
\* call must supply, and whether **extra_kwargs takes the other keywords
FeedstockSignature(name) ==
    CASE name = "create_tmp_directory" -> [required |-> {"tmp_dir"}, extra |-> TRUE]
      [] name = "clone_repository" ->
            [required |-> {"tmp_dir", "branch", "upstream_repository"}, extra |-> TRUE]
      [] name = "update_version_conda_forge_package" ->
            [required |-> {"config"}, extra |-> FALSE]
      [] name = "push_conda_forge" -> [required |-> {"config"}, extra |-> FALSE]
      [] name = "cleanup" -> [required |-> {"tmp_dir"}, extra |-> TRUE]

\* step_func(**cfg) binds: every required name is a key of cfg, and the other
\* keys have a **extra_kwargs to go to
Binds(name, cfg) ==
    LET sig == FeedstockSignature(name) IN
    /\ sig.required \subseteq DOMAIN cfg
    /\ sig.extra \/ DOMAIN cfg \subseteq sig.required

\* run_steps(config, steps, steps_funcs) of line 89, bound by position to
\* run_steps(config, steps_funcs, steps_filter): line 366 iterates over the
\* str steps, whose items are one-character strings that do not unpack into
\* (f, desc); over the empty str func_names is [], ':' is not in the list
\* steps_filter, and line 374 looks the list up in []
run_steps_swapped(cfg, steps, funcs) ==
    LET func_names == <<>>
        listed == \E k \in 1..Len(func_names) : func_names[k] = funcs
    IN IF Len(steps) > 0 THEN Raise("ValueError")
       ELSE IF ~listed THEN Raise("ValueError")
       ELSE ReturnNone

\* the selectors update_feedstock is called with
FeedstockTokens == {feedstock_steps_funcs[k].name : k \in 1..Len(feedstock_steps_funcs)}
FeedstockSelectors ==
    {<<>>, <<Sep>>}
    \cup {<<a>> : a \in FeedstockTokens}
    \cup {<<a, Sep>> : a \in FeedstockTokens}
    \cup {<<Sep, b>> : b \in FeedstockTokens}
    \cup {<<a, Sep, b>> : a, b \in FeedstockTokens}

\* update_feedstock's arguments
FeedstockArgs ==
    [main_repository : {<<"https://github.com/larray-project/larray">>},
     feedstock_repository : {<<"https://github.com/larray-project/larray-feedstock">>},
     module_name : {"larray"},
     release_name : {<<"0", ".", "8", ".", "0">>, <<"0", ".", "9">>},
     steps : FeedstockSelectors,
     branch : {"master"},
     tmp_dir : {None, <<"/tmp", "/", "feedstock">>}]

\* update_feedstock (lines 86-89), from its first line to the exception
\* that leaves it
UpdateFeedstock ==
    /\ pc = "update_feedstock"
    /\ LET cfg == set_config_conda(args.main_repository, args.feedstock_repository,
                                   args.module_name, args.release_name, args.branch,
                                   args.tmp_dir)
           r == run_steps_swapped(cfg, args.steps, feedstock_steps_funcs)
       IN /\ config' = cfg
          /\ pc' = "raised"
          /\ error' = r.value.type
          /\ exit_status' = 1
    /\ UNCHANGED <<registry, steps_filter, start, stop, selected, i, calls, trace>>
    /\ UNCHANGED <<args, world, rest>>

InitFeedstock ==
    /\ registry = feedstock_steps_funcs
    /\ RunIdle
    /\ pc = "update_feedstock"
    /\ error = ""
    /\ exit_status = None
    /\ args \in FeedstockArgs
    /\ WorldIdle
    /\ RestIdle

NextFeedstock == UpdateFeedstock

SpecFeedstock == InitFeedstock /\ [][NextFeedstock]_vars

\* ------------------------------------------- claims: the feedstock pipeline

\* update_feedstock is over
FeedstockOver == registry = feedstock_steps_funcs /\ pc \in {"done", "raised", "exited"}

\* C28 (as claimed): update_feedstock called with ':' has called its five
\* steps in order when it is over, and the configuration of set_config_conda
\* binds to every one of them
C28_Original ==
    (FeedstockOver /\ args.steps = <<Sep>>)
    => /\ pc = "done"
       /\ [k \in 1..Len(calls) |-> calls[k].name] = FuncNames(feedstock_steps_funcs)
       /\ \A name \in FeedstockTokens : Binds(name, config)

====
